---------------------------- MODULE Spec2Model ----------------------------
(***************************************************************************)
(* A model of the search core of src/src/search.cpp: the value encoding    *)
(* across the transposition table, the think()/id_loop() driver with the   *)
(* root move loop and poll(), one search()/qsearch() node with every call  *)
(* it makes, and the master side of ThreadsManager::idle_loop().           *)
(*                                                                         *)
(* The module holds several specifications over one set of variables; each *)
(* specification drives one group of variables and keeps the others at     *)
(* their idle value.                                                       *)
(***************************************************************************)
EXTENDS Integers, Sequences, FiniteSets, TLC

(***************************************************************************)
(* Program constants.  The Value and Depth enumerations live in headers    *)
(* (types.h) that search.cpp includes.                                     *)
(***************************************************************************)
VALUE_ZERO == 0
VALUE_DRAW == 0
VALUE_KNOWN_WIN == 15000
VALUE_MATE == 30000
VALUE_INFINITE == 30001
VALUE_NONE == 30002
PLY_MAX == 100
PLY_MAX_PLUS_2 == 102
VALUE_MATE_IN_PLY_MAX == VALUE_MATE - PLY_MAX
VALUE_MATED_IN_PLY_MAX == -VALUE_MATE + PLY_MAX
ONE_PLY == 2
DEPTH_ZERO == 0
PawnValueMidgame == 198
EasyMoveMargin == 512
MOVE_NONE == 0

Max(a, b) == IF a >= b THEN a ELSE b
Min(a, b) == IF a <= b THEN a ELSE b
abs(a) == IF a < 0 THEN -a ELSE a

value_mate_in(ply) == VALUE_MATE - ply
value_mated_in(ply) == -VALUE_MATE + ply

(***************************************************************************)
(* Bounds of the model.                                                    *)
(***************************************************************************)
ValSpan == 2

MaxRootMoves == 2
MaxIter == 2

VARIABLES
  \* ---- value conversion (value_to_tt / value_from_tt) ----
  cvIn, cvPly, cvTT, cvOut, cvpc,
  \* ---- think(): its arguments, the UCI options and the input stream ----
  limits, bookMove, UCIMultiPV, SkillLevel, rootInCheck, rootEvalPos, rootMoves,
  \* ---- namespace variables of search.cpp ----
  Limits, StopOnPonderhit, StopRequest, QuitRequest, AspirationFailLow,
  FirstRootMove, MultiPV, SkillLevelEnabled, ValueDraw, LastValue, Rml, TT,
  \* ---- locals of id_loop() ----
  depth, aspirationDelta, value, alpha, beta, bestMove, ponderMove, easyMove,
  skillBest, skillPonder, bestValues,
  \* ---- locals of the root call search<PV, false, true>() ----
  rAlpha, rBestValue, rMoveCount, rMove, rBestMove, rSearched,
  \* ---- control: position in think(), what was written to cout, result ----
  pc, out, thinkRet,
  \* ---- history: commands read, last completed iteration, aborted iteration ----
  cmdRead, quitRead, lastDone, aborted,
  \* ---- one call of search<PvNode>() or qsearch<PvNode>() below the root ----
  nd, ndpc, ndCalls, ndRet, ndTT, ndStore,
  \* ---- the thread pool: ThreadsManager, the split points, each thread's calls ----
  threads, splitPoints, allThreadsShouldExit, activeThreads, useSleepingThreads,
  callStack, idleRet,
  \* ---- one split point and the threads in search<SpNode>() on it ----
  spShared, spt, spAcc, spLog,
  \* ---- value_to_uci(): its argument and what it prints ----
  ucIn, ucOut,
  \* ---- who polls and who writes StopRequest ----
  pl, plThreads, plLog,
  \* ---- id_loop() over its iterations, the root search summarised ----
  dl,
  \* ---- the probe of the transposition table of one node ----
  pbIn, pbOut, pbpc,
  \* ---- ok_to_use_TT(): its arguments and its result ----
  okIn, okOut, okpc,
  \* ---- one move of the move loop of search(), steps 14 to 17 ----
  mv,
  \* ---- the position along the calls of search(), qsearch() and insert_pv_in_tt() ----
  psPos, psStack, psRet,
  \* ---- the SearchStack frames of the calls of one thread ----
  sk, skAcc

cvVars == <<cvIn, cvPly, cvTT, cvOut, cvpc>>
argVars == <<limits, bookMove, UCIMultiPV, SkillLevel, rootInCheck, rootEvalPos,
            rootMoves>>
globVars == <<Limits, StopOnPonderhit, StopRequest, QuitRequest, AspirationFailLow,
              FirstRootMove, MultiPV, SkillLevelEnabled, ValueDraw, LastValue,
              Rml, TT>>
idVars == <<depth, aspirationDelta, value, alpha, beta, bestMove, ponderMove,
            easyMove, skillBest, skillPonder, bestValues>>
rootVars == <<rAlpha, rBestValue, rMoveCount, rMove, rBestMove, rSearched>>
ctlVars == <<pc, out, thinkRet>>
histVars == <<cmdRead, quitRead, lastDone, aborted>>
thVars == <<argVars, globVars, idVars, rootVars, ctlVars, histVars>>
ndVars == <<nd, ndpc, ndCalls, ndRet, ndTT, ndStore>>
ilVars == <<threads, splitPoints, allThreadsShouldExit, activeThreads,
            useSleepingThreads, callStack, idleRet>>
spVars == <<spShared, spt, spAcc, spLog>>
ucVars == <<ucIn, ucOut>>
plVars == <<pl, plThreads, plLog>>
dlVars == <<dl>>
pbVars == <<pbIn, pbOut, pbpc>>
okVars == <<okIn, okOut, okpc>>
mvVars == <<mv>>
psVars == <<psPos, psStack, psRet>>
skVars == <<sk, skAcc>>
vars == <<cvVars, thVars, ndVars, ilVars, spVars, ucVars, plVars, dlVars, pbVars, okVars, mvVars, psVars, skVars>>

\* What the actions of one part leave alone: the variables of the other parts.
cvFrame == <<thVars, ndVars, ilVars, spVars, ucVars, plVars, dlVars, pbVars, okVars, mvVars, psVars, skVars>>
thFrame == <<cvVars, ndVars, ilVars, spVars, ucVars, plVars, dlVars, pbVars, okVars, mvVars, psVars, skVars>>
ndFrame == <<cvVars, thVars, ilVars, spVars, ucVars, plVars, dlVars, pbVars, okVars, mvVars, psVars, skVars>>
ilFrame == <<cvVars, thVars, ndVars, spVars, ucVars, plVars, dlVars, pbVars, okVars, mvVars, psVars, skVars>>
spFrame == <<cvVars, thVars, ndVars, ilVars, ucVars, plVars, dlVars, pbVars, okVars, mvVars, psVars, skVars>>
ucFrame == <<cvVars, thVars, ndVars, ilVars, spVars, plVars, dlVars, pbVars, okVars, mvVars, psVars, skVars>>
plFrame == <<cvVars, thVars, ndVars, ilVars, spVars, ucVars, dlVars, pbVars, okVars, mvVars, psVars, skVars>>
dlFrame == <<cvVars, thVars, ndVars, ilVars, spVars, ucVars, plVars, pbVars, okVars, mvVars, psVars, skVars>>
pbFrame == <<cvVars, thVars, ndVars, ilVars, spVars, ucVars, plVars, dlVars, okVars, mvVars, psVars, skVars>>
okFrame == <<cvVars, thVars, ndVars, ilVars, spVars, ucVars, plVars, dlVars, pbVars, mvVars, psVars, skVars>>
mvFrame == <<cvVars, thVars, ndVars, ilVars, spVars, ucVars, plVars, dlVars, pbVars, okVars, psVars, skVars>>
psFrame == <<cvVars, thVars, ndVars, ilVars, spVars, ucVars, plVars, dlVars, pbVars, okVars, mvVars, skVars>>
skFrame == <<cvVars, thVars, ndVars, ilVars, spVars, ucVars, plVars, dlVars, pbVars, okVars, mvVars, psVars>>

(***************************************************************************)
(* value_to_tt() and value_from_tt()                                       *)
(***************************************************************************)
value_to_tt(v, ply) ==
  IF v >= VALUE_MATE_IN_PLY_MAX THEN v + ply
  ELSE IF v <= VALUE_MATED_IN_PLY_MAX THEN v - ply
  ELSE v

value_from_tt(v, ply) ==
  IF v = VALUE_NONE THEN v
  ELSE IF v >= VALUE_MATE_IN_PLY_MAX THEN v - ply
  ELSE IF v <= VALUE_MATED_IN_PLY_MAX THEN v + ply
  ELSE v

\* The values a search can hold: [-VALUE_MATE, VALUE_MATE].  The model samples
\* them around the places where the code branches.
Landmarks == {-VALUE_MATE, VALUE_MATED_IN_PLY_MAX, -VALUE_KNOWN_WIN, VALUE_ZERO,
              VALUE_KNOWN_WIN, VALUE_MATE_IN_PLY_MAX, VALUE_MATE}
ValueSamples ==
  {v \in -VALUE_MATE..VALUE_MATE :
     \E l \in Landmarks : abs(v - l) <= ValSpan}

\* The conversion on its own: a value is stored at a ply and loaded again.
CvIdle == cvIn = 0 /\ cvPly = 0 /\ cvTT = 0 /\ cvOut = 0 /\ cvpc = "idle"

CvInit ==
  /\ cvIn \in ValueSamples
  /\ cvPly \in 0..PLY_MAX
  /\ cvTT = 0
  /\ cvOut = 0
  /\ cvpc = "start"

\* TT.store(posKey, value_to_tt(bestValue, ss->ply), ...)
CvStore ==
  /\ cvpc = "start"
  /\ cvTT' = value_to_tt(cvIn, cvPly)
  /\ cvpc' = "stored"
  /\ UNCHANGED <<cvIn, cvPly, cvOut, cvFrame>>

\* value_from_tt(tte->value(), ss->ply)
CvLoad ==
  /\ cvpc = "stored"
  /\ cvOut' = value_from_tt(cvTT, cvPly)
  /\ cvpc' = "loaded"
  /\ UNCHANGED <<cvIn, cvPly, cvTT, cvFrame>>

CvNext == CvStore \/ CvLoad

(***************************************************************************)
(* think(), id_loop(), the root call of search() and poll()                *)
(***************************************************************************)
DEPTH_NONE == -254
VALUE_TYPE_NONE == 0
VALUE_TYPE_UPPER == 1
VALUE_TYPE_LOWER == 2
VALUE_TYPE_EXACT == 3
ReplyMove == 9
SkillOff == 20

\* C++ integer division truncates toward zero.
CDiv(a, b) == IF a >= 0 THEN a \div b ELSE -((-a) \div b)

\* Limits.useTimeManagement() of search.h
useTimeManagement(l) ==
  ~(l.maxTime # 0 \/ l.maxDepth # 0 \/ l.maxNodes # 0 \/ l.infinite)

NoLimits == [ponder |-> FALSE, infinite |-> FALSE, maxDepth |-> 0,
             maxTime |-> 0, maxNodes |-> 0]

\* The "go" commands the model starts think() with: time managed, depth,
\* nodes and infinite, each with and without "ponder".
LimitsSamples ==
  {[ponder |-> p, infinite |-> m = "infinite",
    maxDepth |-> IF m = "depth" THEN 1 ELSE 0,
    maxTime |-> 0,
    maxNodes |-> IF m = "nodes" THEN 1 ELSE 0] :
      p \in BOOLEAN, m \in {"time", "depth", "nodes", "infinite"}}

\* Lines read from std::cin.  "eof" stands for getline() returning false,
\* "other" for any line the search does not react to.
Commands == {"stop", "ponderhit", "quit", "eof", "other"}

\* The values a child search hands back to the root
ChildValues == {VALUE_DRAW, 3 * PawnValueMidgame}

\* The mate form without the rounding up of the plies of the mating side
value_to_uciNoRound(v) ==
  IF abs(v) < VALUE_MATE - PLY_MAX
  THEN [kind |-> "cp", n |-> CDiv(v * 100, PawnValueMidgame)]
  ELSE [kind |-> "mate",
        n |-> CDiv(IF v > 0 THEN VALUE_MATE - v ELSE -VALUE_MATE - v, 2)]

\* value_to_uci()
value_to_uci(v) ==
  IF abs(v) < VALUE_MATE - PLY_MAX
  THEN [kind |-> "cp", n |-> CDiv(v * 100, PawnValueMidgame)]
  ELSE [kind |-> "mate",
        n |-> CDiv(IF v > 0 THEN VALUE_MATE - v + 1 ELSE -VALUE_MATE - v, 2)]

\* A RootMove: pv is the PV without its MOVE_NONE terminator, pv[1] the root
\* move.
NewRootMove(m) == [pv |-> <<m>>, pv_score |-> -VALUE_INFINITE]

\* RootMoveList::init(): one RootMove per legal move allowed by searchMoves
RmlInit(moves) == [i \in 1..Len(moves) |-> NewRootMove(moves[i])]

\* pv[k] of the C array, k from 0: MOVE_NONE past the end
PvAt(rm, k) == IF k + 1 <= Len(rm.pv) THEN rm.pv[k + 1] ELSE MOVE_NONE

\* RootMove::operator<()
RootMoveLess(a, b) == a.pv_score > b.pv_score

\* std::stable_sort(Rml.begin(), Rml.end()): x goes before the first element
\* it is less than, after every element it is not.
RECURSIVE SortInsert(_, _)
SortInsert(x, s) ==
  IF s = <<>> THEN <<x>>
  ELSE IF RootMoveLess(x, s[Len(s)])
       THEN Append(SortInsert(x, SubSeq(s, 1, Len(s) - 1)), s[Len(s)])
       ELSE Append(s, x)

RECURSIVE StableSortUpTo(_, _)
StableSortUpTo(s, n) ==
  IF n = 0 THEN <<>> ELSE SortInsert(s[n], StableSortUpTo(s, n - 1))

StableSortNone(s) == s
StableSort(s) == StableSortUpTo(s, Len(s))

\* The transposition table, as far as the model follows it: the entry of the
\* root position (key <<>>); the positions below the root belong to the child
\* searches.  NoTTE is what TT.probe() returns for a key without entry.
\* sv tells whether the entry holds a static value (and margin) other than
\* VALUE_NONE.
NoTTE == [move |-> MOVE_NONE, value |-> VALUE_NONE, type |-> VALUE_TYPE_NONE,
          depth |-> DEPTH_NONE, sv |-> FALSE, present |-> FALSE]
TTKeys == {<<>>}

\* TT.store() of tt.cpp: overwrites the entry of the key and keeps the old
\* move when it is given MOVE_NONE.
TTStore(tt, k, v, t, d, m, sv) ==
  [tt EXCEPT ![k] = [move |-> IF m = MOVE_NONE THEN tt[k].move ELSE m,
                     value |-> v, type |-> t, depth |-> d, sv |-> sv,
                     present |-> TRUE]]

\* RootMove::insert_pv_in_tt()
RECURSIVE InsertPvFrom(_, _, _, _)
InsertPvFrom(tt, pv, ply, d) ==
  IF ply + 1 > Len(pv) \/ SubSeq(pv, 1, ply) \notin TTKeys THEN tt
  ELSE
    LET k == SubSeq(pv, 1, ply)
        tte == tt[k]
        m == pv[ply + 1]
        d1 == IF tte.present /\ tte.move = m /\ tte.depth + ONE_PLY >= d
              THEN tte.depth ELSE d - ONE_PLY
        tt1 == IF ~tte.present
               THEN TTStore(tt, k, VALUE_NONE, VALUE_TYPE_NONE, d1, m, FALSE)
               ELSE IF tte.move # m
                    THEN IF tte.depth >= d1 /\ tte.type = VALUE_TYPE_UPPER
                         THEN TTStore(tt, k, tte.value, tte.type, tte.depth, m,
                                      tte.sv)
                         ELSE TTStore(tt, k, VALUE_NONE, VALUE_TYPE_NONE, d1, m,
                                      tte.sv)
                    ELSE tt
    IN InsertPvFrom(tt1, pv, ply + 1, d1)

insert_pv_in_tt(tt, rm) == InsertPvFrom(tt, rm.pv, 0, DEPTH_NONE)

\* for (i = 0; i < Min(MultiPV, Rml.size()); i++) Rml[i].insert_pv_in_tt(pos)
RECURSIVE InsertPvs(_, _, _, _)
InsertPvs(tt, rml, i, n) ==
  IF i > n THEN tt ELSE InsertPvs(insert_pv_in_tt(tt, rml[i]), rml, i + 1, n)

\* do_skill_level(): rnd[i] is the value of rk.rand<unsigned>() % wk drawn for
\* Rml[i-1].  The result is <<best, ponder>>, the arguments left as they were
\* when no entry is chosen.
RECURSIVE SkillLoop(_, _, _, _, _, _, _, _, _)
SkillLoop(rml, i, size, maxv, var, wk, rnd, max_s, res) ==
  IF i > size THEN res
  ELSE
    LET s0 == rml[i].pv_score IN
    IF i > 1 /\ rml[i - 1].pv_score > s0 + EasyMoveMargin THEN res
    ELSE
      LET s == s0 + CDiv((maxv - s0) * wk + var * rnd[i], 128) IN
      IF s > max_s
      THEN SkillLoop(rml, i + 1, size, maxv, var, wk, rnd, s,
                     <<PvAt(rml[i], 0), PvAt(rml[i], 1)>>)
      ELSE SkillLoop(rml, i + 1, size, maxv, var, wk, rnd, max_s, res)

do_skill_level(rml, multiPV, skill, rnd, best, ponder) ==
  LET size == Min(multiPV, Len(rml))
      maxv == rml[1].pv_score
      var == Min(maxv - rml[size].pv_score, PawnValueMidgame)
      wk == 120 - 2 * skill
  IN SkillLoop(rml, 1, size, maxv, var, wk, rnd, -VALUE_INFINITE, <<best, ponder>>)

\* The values of rk.rand<unsigned>() % wk the model draws: the least, the
\* greatest and one between.
RandSamples(skill) ==
  LET wk == 120 - 2 * skill IN {0, wk \div 2, wk - 1}

\* What the model keeps in an array element that was never written
Undef == VALUE_NONE + 1
\* History kept for the properties.  aborted: the root move whose search was
\* running when the root saw StopRequest, its RootMove before that search, the
\* iteration, and whether the iteration had left Rml as it found it until
\* then.  lastDone: the result of the last iteration that ran to its end.
NoAbort == [flag |-> FALSE, move |-> MOVE_NONE, before |-> NewRootMove(MOVE_NONE),
            iter |-> 0, fresh |-> FALSE]
NoneDone == [iter |-> 0, bestMove |-> MOVE_NONE, ponderMove |-> MOVE_NONE,
             Rml |-> <<>>, TT |-> <<>>]

BestMoveLine(m, p) == [t |-> "bestmove", move |-> m, ponder |-> p]
InfoSpeedLine == [t |-> "info speed"]
InfoDepth0Line(v) ==
  [t |-> "info depth 0 score", value |-> v, score |-> value_to_uci(v)]

\* The score id_loop() reports for a root without moves
RootMateScoreSwapped(inCheck) == IF inCheck THEN VALUE_DRAW ELSE -VALUE_MATE
RootMateScore(inCheck) == IF inCheck THEN -VALUE_MATE ELSE VALUE_DRAW

\* The options think() is run with: MultiPV and Skill Level
OptionSamples == {<<1, SkillOff>>, <<2, SkillOff>>, <<1, 0>>, <<2, 1>>}

\* The state in which think() is entered.  The flags keep what the previous
\* search left in them.  The options vary with the searches that are not
\* started with "go ponder" and read them: not when the book has a move (a
\* legal one, so the root has moves) and not when the root has no move.  rootEvalPos is the sign of the root's ss->eval, VALUE_NONE
\* when in check, which is read in single-PV mode only.
ThInit ==
  /\ limits \in LimitsSamples
  /\ Limits = NoLimits
  /\ bookMove \in {MOVE_NONE, 1}
  /\ \E n \in 0..MaxRootMoves : rootMoves = [i \in 1..n |-> i]
  /\ bookMove # MOVE_NONE => Len(rootMoves) = 1
  /\ \E o \in OptionSamples :
       /\ UCIMultiPV = o[1]
       /\ SkillLevel = o[2]
       /\ (bookMove # MOVE_NONE \/ Len(rootMoves) = 0 \/ limits.ponder)
            => o = <<1, SkillOff>>
  /\ rootInCheck \in BOOLEAN
  /\ rootEvalPos \in (IF rootInCheck THEN {TRUE}
                      ELSE IF UCIMultiPV = 1 /\ SkillLevel = SkillOff
                           THEN BOOLEAN ELSE {FALSE})
  /\ bookMove # MOVE_NONE => ~rootInCheck /\ ~rootEvalPos
  /\ StopOnPonderhit \in BOOLEAN
  /\ StopRequest \in BOOLEAN
  /\ QuitRequest = FALSE
  /\ AspirationFailLow = FALSE
  /\ FirstRootMove = FALSE
  /\ MultiPV = 1
  /\ SkillLevelEnabled = FALSE
  /\ ValueDraw = VALUE_ZERO
  /\ LastValue = VALUE_NONE
  /\ Rml = <<>>
  /\ TT = [k \in TTKeys |-> NoTTE]
  /\ depth = 0
  /\ aspirationDelta = 0
  /\ value = 0
  /\ alpha = -VALUE_INFINITE
  /\ beta = VALUE_INFINITE
  /\ bestMove = MOVE_NONE
  /\ ponderMove = MOVE_NONE
  /\ easyMove = MOVE_NONE
  /\ skillBest = MOVE_NONE
  /\ skillPonder = MOVE_NONE
  /\ bestValues = [d \in 0..(MaxIter + 1) |-> Undef]
  /\ rAlpha = 0
  /\ rBestValue = 0
  /\ rMoveCount = 0
  /\ rMove = MOVE_NONE
  /\ rBestMove = MOVE_NONE
  /\ rSearched = {}
  /\ pc = "think"
  /\ out = <<>>
  /\ thinkRet = Undef
  /\ cmdRead = FALSE
  /\ quitRead = FALSE
  /\ lastDone = NoneDone
  /\ aborted = NoAbort

ThIdle ==
  /\ limits = NoLimits
  /\ Limits = NoLimits
  /\ bookMove = MOVE_NONE
  /\ UCIMultiPV = 1
  /\ SkillLevel = SkillOff
  /\ rootInCheck = FALSE
  /\ rootEvalPos = FALSE
  /\ rootMoves = <<>>
  /\ StopOnPonderhit = FALSE
  /\ StopRequest = FALSE
  /\ QuitRequest = FALSE
  /\ AspirationFailLow = FALSE
  /\ FirstRootMove = FALSE
  /\ MultiPV = 1
  /\ SkillLevelEnabled = FALSE
  /\ ValueDraw = VALUE_ZERO
  /\ LastValue = VALUE_NONE
  /\ Rml = <<>>
  /\ TT = [k \in TTKeys |-> NoTTE]
  /\ depth = 0
  /\ aspirationDelta = 0
  /\ value = 0
  /\ alpha = -VALUE_INFINITE
  /\ beta = VALUE_INFINITE
  /\ bestMove = MOVE_NONE
  /\ ponderMove = MOVE_NONE
  /\ easyMove = MOVE_NONE
  /\ skillBest = MOVE_NONE
  /\ skillPonder = MOVE_NONE
  /\ bestValues = [d \in 0..(MaxIter + 1) |-> Undef]
  /\ rAlpha = 0
  /\ rBestValue = 0
  /\ rMoveCount = 0
  /\ rMove = MOVE_NONE
  /\ rBestMove = MOVE_NONE
  /\ rSearched = {}
  /\ pc = "idle"
  /\ out = <<>>
  /\ thinkRet = Undef
  /\ cmdRead = FALSE
  /\ quitRead = FALSE
  /\ lastDone = NoneDone
  /\ aborted = NoAbort

\* think() up to the call of id_loop() and id_loop() up to its loop: the
\* globals are reset, a book move is played or waited on, the options are
\* read, and the root move list is built; an empty list ends id_loop() here.
ThinkStart ==
  /\ pc = "think"
  /\ Limits' = limits
  /\ StopOnPonderhit' = FALSE
  /\ StopRequest' = FALSE
  /\ QuitRequest' = FALSE
  /\ AspirationFailLow' = FALSE
  /\ IF bookMove # MOVE_NONE
     THEN /\ IF limits.ponder
             THEN /\ pc' = "book_wait"
                  /\ UNCHANGED <<out, thinkRet>>
             ELSE /\ out' = Append(out, BestMoveLine(bookMove, MOVE_NONE))
                  /\ thinkRet' = TRUE
                  /\ pc' = "done"
          /\ UNCHANGED <<MultiPV, SkillLevelEnabled, Rml>>
     ELSE /\ SkillLevelEnabled' = (SkillLevel < 20)
          /\ MultiPV' = IF SkillLevel < 20 THEN Max(UCIMultiPV, 4) ELSE UCIMultiPV
          /\ Rml' = RmlInit(rootMoves)
          /\ thinkRet' = thinkRet
          /\ IF Len(rootMoves) = 0
             THEN /\ out' = Append(out, InfoDepth0Line(RootMateScore(rootInCheck)))
                  /\ pc' = "id_ret"
             ELSE /\ out' = out
                  /\ pc' = "iter_head"
  /\ depth' = 0
  /\ aspirationDelta' = 0
  /\ alpha' = -VALUE_INFINITE
  /\ beta' = VALUE_INFINITE
  /\ bestMove' = MOVE_NONE
  /\ ponderMove' = MOVE_NONE
  /\ easyMove' = MOVE_NONE
  /\ skillBest' = MOVE_NONE
  /\ skillPonder' = MOVE_NONE
  /\ UNCHANGED <<thFrame, argVars, FirstRootMove, ValueDraw, LastValue, TT, value,
                 bestValues, rootVars, histVars>>

\* wait_for_stop_or_ponderhit(): one getline() of its loop.  The function
\* returns on "ponderhit", "stop", "quit" and at the end of the input.
\* A wait that takes "stop" for "quit"
WaitOutcomeStopQuits(cmd) ==
  [returns |-> cmd # "other", quit |-> cmd \notin {"ponderhit", "other"}]

WaitOutcome(cmd) ==
  [returns |-> cmd # "other", quit |-> cmd \notin {"ponderhit", "stop", "other"}]

\* think(): the book move is held back while pondering
BookWait ==
  /\ pc = "book_wait"
  /\ \E cmd \in Commands :
       LET w == WaitOutcome(cmd) IN
       IF w.returns
       THEN /\ QuitRequest' = (QuitRequest \/ w.quit)
            /\ out' = Append(out, BestMoveLine(bookMove, MOVE_NONE))
            /\ thinkRet' = ~QuitRequest'
            /\ pc' = "done"
            /\ cmdRead' = TRUE
            /\ quitRead' = (quitRead \/ cmd \in {"quit", "eof"})
       ELSE UNCHANGED <<QuitRequest, out, thinkRet, pc, cmdRead, quitRead>>
  /\ UNCHANGED <<thFrame, argVars, Limits, StopOnPonderhit, StopRequest, AspirationFailLow,
                 FirstRootMove, MultiPV, SkillLevelEnabled, ValueDraw, LastValue,
                 Rml, TT, idVars, rootVars, lastDone, aborted>>

\* Whether think() waits for a command before it prints the best move
MustWaitNoPonder(stop, l) == ~stop /\ l.infinite
MustWait(stop, l) == ~stop /\ (l.ponder \/ l.infinite)

\* think() after id_loop() has returned: wait when pondering or in infinite
\* search, else print the best move and return.
ThinkTail ==
  /\ pc = "id_ret"
  /\ IF MustWait(StopRequest, Limits)
     THEN /\ pc' = "final_wait"
          /\ out' = Append(out, InfoSpeedLine)
          /\ UNCHANGED thinkRet
     ELSE /\ out' = Append(Append(out, InfoSpeedLine),
                          BestMoveLine(bestMove, ponderMove))
          /\ thinkRet' = ~QuitRequest
          /\ pc' = "done"
  /\ UNCHANGED <<thFrame, argVars, globVars, idVars, rootVars, histVars>>

FinalWait ==
  /\ pc = "final_wait"
  /\ \E cmd \in Commands :
       LET w == WaitOutcome(cmd) IN
       IF w.returns
       THEN /\ QuitRequest' = (QuitRequest \/ w.quit)
            /\ out' = Append(out, BestMoveLine(bestMove, ponderMove))
            /\ thinkRet' = ~QuitRequest'
            /\ pc' = "done"
            /\ cmdRead' = TRUE
            /\ quitRead' = (quitRead \/ cmd \in {"quit", "eof"})
       ELSE UNCHANGED <<QuitRequest, out, thinkRet, pc, cmdRead, quitRead>>
  /\ UNCHANGED <<thFrame, argVars, Limits, StopOnPonderhit, StopRequest, AspirationFailLow,
                 FirstRootMove, MultiPV, SkillLevelEnabled, ValueDraw, LastValue,
                 Rml, TT, idVars, rootVars, lastDone, aborted>>

StopCommands == {"stop", "ponderhit", "quit", "eof"}

\* What poll() is given from outside: the line waiting on std::cin ("none":
\* input_available() is false) and how the clock and the node counter stand.
\* The GUI sends "ponderhit" only to a search it started with "go ponder", and
\* a limit that is not set is not compared.  A line poll() does not react to
\* leaves what no line leaves.
PollInputs(L) ==
  [cmd : {"none"} \cup (IF L.ponder THEN StopCommands
                        ELSE StopCommands \ {"ponderhit"}),
   tOverAvail : BOOLEAN, tOverMax : BOOLEAN,
   tGeMaxTime : IF L.maxTime # 0 THEN BOOLEAN ELSE {FALSE},
   nodesGeMax : IF L.maxNodes # 0 THEN BOOLEAN ELSE {FALSE}]
NoInput == [cmd |-> "none", tOverAvail |-> FALSE, tOverMax |-> FALSE,
            tGeMaxTime |-> FALSE, nodesGeMax |-> FALSE]

\* poll(): the new Limits, StopRequest and QuitRequest, and whether a command
\* that ends pondering was read.
poll(L, stopReq, quitReq, onPonderhit, firstRootMove, failLow, in) ==
  LET quit == in.cmd \in {"quit", "eof"}
      L1 == IF in.cmd \in StopCommands THEN [L EXCEPT !.ponder = FALSE] ELSE L
      s1 == stopReq \/ quit \/ in.cmd = "stop"
                    \/ (in.cmd = "ponderhit" /\ onPonderhit)
      stillAtFirstMove == firstRootMove /\ ~failLow /\ in.tOverAvail
      noMoreTime == in.tOverMax \/ stillAtFirstMove
      limitHit == \/ (useTimeManagement(L1) /\ noMoreTime)
                  \/ (L1.maxTime # 0 /\ in.tGeMaxTime)
                  \/ (L1.maxNodes # 0 /\ in.nodesGeMax)
  IN [Limits |-> L1,
      StopRequest |-> IF quit \/ L1.ponder THEN s1 ELSE s1 \/ limitHit,
      QuitRequest |-> quitReq \/ quit,
      read |-> in.cmd \in StopCommands]

\* id_loop(): the condition of the iteration loop and the head of its body.
\* The model follows the loop up to iteration MaxIter.
IterHead ==
  /\ pc = "iter_head"
  /\ \/ StopRequest
     \/ depth + 1 <= MaxIter
     \/ depth + 1 > PLY_MAX
     \/ (Limits.maxDepth # 0 /\ depth + 1 > Limits.maxDepth)
  /\ IF StopRequest
     THEN /\ pc' = "id_exit"
          /\ UNCHANGED <<depth, ValueDraw, LastValue,
                         aspirationDelta, alpha, beta>>
     ELSE /\ depth' = depth + 1
          /\ IF depth' <= PLY_MAX /\ (Limits.maxDepth = 0 \/ depth' <= Limits.maxDepth)
             THEN /\ ValueDraw' =
                       IF /\ depth' >= 26
                          /\ abs(bestValues[depth' - 1]) >= 2 * PawnValueMidgame
                          /\ \/ bestValues[depth' - 1] - bestValues[20] > 16
                             \/ bestValues[depth' - 1] - bestValues[20] < -16
                       THEN bestValues[depth' - 1] ELSE VALUE_ZERO
                  /\ LastValue' =
                       IF /\ depth' >= 36
                          /\ abs(bestValues[depth' - 1]) >= 2 * PawnValueMidgame
                          /\ abs(bestValues[depth' - 1]) < VALUE_KNOWN_WIN
                          /\ abs(bestValues[depth' - 1] - bestValues[depth' - 10]) <= 16
                       THEN abs(bestValues[depth' - 1]) ELSE VALUE_NONE
                  /\ IF MultiPV = 1 /\ depth' >= 5
                     THEN LET prevDelta1 == bestValues[depth' - 1] - bestValues[depth' - 2]
                              prevDelta2 == bestValues[depth' - 2] - bestValues[depth' - 3]
                              d0 == Min(Max(abs(prevDelta1) + abs(prevDelta2) \div 2, 16), 24)
                              d1 == ((d0 + 7) \div 8) * 8
                              known == abs(bestValues[depth' - 1]) >= VALUE_KNOWN_WIN
                          IN /\ aspirationDelta' = d1
                             /\ alpha' = IF known THEN -VALUE_INFINITE
                                         ELSE Max(bestValues[depth' - 1] - d1, -VALUE_INFINITE)
                             /\ beta' = IF known THEN VALUE_INFINITE
                                        ELSE Min(bestValues[depth' - 1] + d1, VALUE_INFINITE)
                     ELSE UNCHANGED <<aspirationDelta, alpha, beta>>
                  /\ pc' = "root_entry"
             ELSE /\ pc' = "id_exit"
                  /\ UNCHANGED <<ValueDraw, LastValue,
                                 aspirationDelta, alpha, beta>>
  /\ UNCHANGED <<thFrame, argVars, Limits, StopOnPonderhit, StopRequest, QuitRequest,
                 AspirationFailLow, FirstRootMove, MultiPV, SkillLevelEnabled,
                 Rml, TT, value, bestMove, ponderMove, easyMove, skillBest,
                 skillPonder, bestValues, rootVars, out,
                 thinkRet, histVars>>

\* Step 4: whether search() keeps the entry TT.probe() gave it
TTEntryUsable(tte, inCheck) == tte.present /\ (tte.sv = ~inCheck)

\* search<PV, false, true>() from its entry to its move loop: steps 1, 4 and 5.
\* Steps 2, 3 and the pruning steps are not taken at the root, and step 9 is
\* not because ttMove is Rml[0].pv[0].
RootEntry ==
  /\ pc = "root_entry"
  /\ \E polled \in BOOLEAN :
     \E in \in (IF polled THEN PollInputs(Limits) ELSE {NoInput}) :
       LET r == IF polled
                THEN poll(Limits, StopRequest, QuitRequest, StopOnPonderhit,
                          FirstRootMove, AspirationFailLow, in)
                ELSE [Limits |-> Limits, StopRequest |-> StopRequest,
                      QuitRequest |-> QuitRequest, read |-> FALSE] IN
       /\ Limits' = r.Limits
       /\ StopRequest' = r.StopRequest
       /\ QuitRequest' = r.QuitRequest
       /\ cmdRead' = (cmdRead \/ r.read)
       /\ quitRead' = (quitRead \/ in.cmd \in {"quit", "eof"})
  /\ TT' = IF ~rootInCheck /\ ~TTEntryUsable(TT[<<>>], rootInCheck)
           THEN TTStore(TT, <<>>, VALUE_NONE, VALUE_TYPE_NONE, DEPTH_NONE,
                        MOVE_NONE, TRUE)
           ELSE TT
  /\ rAlpha' = alpha
  /\ rBestValue' = -VALUE_INFINITE
  /\ rMoveCount' = 0
  /\ rMove' = MOVE_NONE
  /\ rBestMove' = MOVE_NONE
  /\ rSearched' = {}
  /\ pc' = "root_loop"
  /\ UNCHANGED <<thFrame, argVars, StopOnPonderhit, AspirationFailLow, FirstRootMove,
                 MultiPV, SkillLevelEnabled, ValueDraw, LastValue, Rml,
                 idVars, out, thinkRet, lastDone, aborted>>

RootMovesOf(rml) == {rml[i].pv[1] : i \in 1..Len(rml)}
RmlIndex(rml, m) == CHOOSE i \in 1..Len(rml) : rml[i].pv[1] = m

\* What the search of a root move hands back: the value of its zero-window
\* searches, the value of its PV search and the first move of the child's PV.
\* A child whose PV search returns the draw score has an empty PV in the
\* model, as when it stops at step 2; the others have a reply.
ChildResults ==
  {[zw |-> z, pvv |-> p,
    reply |-> IF p = VALUE_DRAW THEN MOVE_NONE ELSE ReplyMove] :
      z \in ChildValues, p \in ChildValues}

\* The test of line 1344: the root leaves its move loop when a stop is seen
RootBreakNever(stop) == FALSE
RootBreak(stop) == stop

\* One pass of the root's move loop, steps 10 to 17 and the root's
\* bookkeeping.  The MovePicker gives ttMove = Rml[0].pv[0] first and the other
\* legal moves in an order of its own; with MultiPV > 1 the move is taken from
\* Rml.  The model takes searchMoves to allow every legal move, so that the
\* picker's moves are those of Rml.  The nodes below the root call poll()
\* (thread 0, every NodesBetweenPolls nodes): polled tells whether they did
\* while this move was searched, and one call stands for several, since two
\* calls leave nothing that one call with the right input does not.
RootMove ==
  /\ pc = "root_loop"
  /\ rMoveCount' = rMoveCount + 1
  /\ FirstRootMove' = (rMoveCount' = 1)
  /\ \E m \in RootMovesOf(Rml) \ rSearched :
     \E polled \in BOOLEAN :
     \E in \in (IF polled THEN PollInputs(Limits) ELSE {NoInput}) :
     \E c \in ChildResults :
       LET r == IF polled
                THEN poll(Limits, StopRequest, QuitRequest, StopOnPonderhit,
                          FirstRootMove', AspirationFailLow, in)
                ELSE [Limits |-> Limits, StopRequest |-> StopRequest,
                      QuitRequest |-> QuitRequest, read |-> FALSE]
           isPvMove == rMoveCount' <= (IF depth * ONE_PLY <= ONE_PLY THEN 1000
                                       ELSE MultiPV)
           pvSearch == isPvMove \/ c.zw > rAlpha
           a1 == IF pvSearch /\ MultiPV > 1 /\ rMoveCount' <= MultiPV
                 THEN -VALUE_INFINITE ELSE rAlpha
           v == IF pvSearch THEN c.pvv ELSE c.zw
           i == RmlIndex(Rml, m)
           commit == isPvMove \/ v > a1
           rm1 == IF commit
                  THEN [pv |-> IF c.reply = MOVE_NONE THEN <<m>>
                               ELSE <<m, c.reply>>,
                        pv_score |-> v]
                  ELSE [Rml[i] EXCEPT !.pv_score = -VALUE_INFINITE]
           Rml1 == [Rml EXCEPT ![i] = rm1]
           a2 == IF ~commit THEN a1
                 ELSE IF MultiPV > 1 THEN Rml1[Min(rMoveCount', MultiPV)].pv_score
                 ELSE IF v > a1
                      THEN v - (IF v = VALUE_ZERO /\ rootEvalPos THEN 1 ELSE 0)
                      ELSE a1
           bv == IF v > rBestValue THEN v ELSE rBestValue
       IN
       /\ IF MultiPV > 1 THEN m = Rml[rMoveCount'].pv[1]
          ELSE rMoveCount' = 1 => m = Rml[1].pv[1]
       /\ rMove' = m
       /\ rSearched' = rSearched \cup {m}
       /\ Limits' = r.Limits
       /\ StopRequest' = r.StopRequest
       /\ QuitRequest' = r.QuitRequest
       /\ cmdRead' = (cmdRead \/ r.read)
       /\ quitRead' = (quitRead \/ in.cmd \in {"quit", "eof"})
       /\ rBestValue' = bv
       /\ rBestMove' = IF v > rBestValue /\ v > a1 THEN m ELSE rBestMove
       /\ aborted' = IF r.StopRequest /\ ~aborted.flag
                     THEN [flag |-> TRUE, move |-> m, before |-> Rml[i],
                           iter |-> depth,
                           fresh |-> Rml = (IF lastDone.iter = 0
                                            THEN RmlInit(rootMoves)
                                            ELSE lastDone.Rml)]
                     ELSE aborted
       /\ IF RootBreak(r.StopRequest)
          THEN /\ rAlpha' = a1
               /\ pc' = "root_exit"
               /\ UNCHANGED <<Rml, ValueDraw>>
          ELSE /\ Rml' = Rml1
               /\ rAlpha' = a2
               /\ ValueDraw' =
                    IF commit /\ (\/ (a2 >= ValueDraw /\ ValueDraw < VALUE_ZERO)
                                  \/ (a2 <= ValueDraw /\ ValueDraw > VALUE_ZERO))
                    THEN VALUE_ZERO ELSE ValueDraw
               /\ pc' = IF bv < beta /\ rMoveCount' < Len(Rml)
                        THEN "root_loop" ELSE "root_exit"
  /\ UNCHANGED <<thFrame, argVars, StopOnPonderhit, AspirationFailLow, MultiPV,
                 SkillLevelEnabled, LastValue, TT, idVars, out, thinkRet,
                 lastDone>>

\* A bound kind that is never VALUE_TYPE_EXACT
BoundTypeNoExact(bestValue, oldAlpha, b) ==
  IF bestValue <= oldAlpha THEN VALUE_TYPE_UPPER ELSE VALUE_TYPE_LOWER

\* The bound kind of step 20
BoundType(bestValue, oldAlpha, b) ==
  IF bestValue <= oldAlpha THEN VALUE_TYPE_UPPER
  ELSE IF bestValue >= b THEN VALUE_TYPE_LOWER ELSE VALUE_TYPE_EXACT

\* Steps 19 and 20 at the root, whose ply is 1, and the return of bestValue
\* into id_loop()'s value.
RootReturn ==
  /\ pc = "root_exit"
  /\ TT' = IF ~StopRequest
           THEN TTStore(TT, <<>>, value_to_tt(rBestValue, 1),
                        BoundType(rBestValue, alpha, beta), depth * ONE_PLY,
                        rBestMove, ~rootInCheck)
           ELSE TT
  /\ value' = rBestValue
  /\ rAlpha' = 0
  /\ rBestValue' = 0
  /\ rMoveCount' = 0
  /\ rMove' = MOVE_NONE
  /\ rBestMove' = MOVE_NONE
  /\ rSearched' = {}
  /\ pc' = "asp_step"
  /\ UNCHANGED <<thFrame, argVars, Limits, StopOnPonderhit, StopRequest,
                 QuitRequest, AspirationFailLow, FirstRootMove, MultiPV,
                 SkillLevelEnabled, ValueDraw, LastValue, Rml, depth,
                 aspirationDelta, alpha, beta, bestMove, ponderMove, easyMove,
                 skillBest, skillPonder, bestValues, out, thinkRet, histVars>>

\* id_loop(): the body of the aspiration loop after search() has returned
AspStep ==
  /\ pc = "asp_step"
  /\ Rml' = StableSort(Rml)
  /\ TT' = InsertPvs(TT, Rml', 1, Min(MultiPV, Len(Rml')))
  /\ IF StopRequest
     THEN /\ pc' = "iter_collect"
          /\ UNCHANGED <<value, ValueDraw, alpha, beta, aspirationDelta,
                         AspirationFailLow, StopOnPonderhit>>
     ELSE LET v1 == IF LastValue # VALUE_NONE /\ abs(value - bestValues[depth - 1]) = 1
                    THEN bestValues[depth - 1] ELSE value
          IN
          /\ value' = v1
          /\ ValueDraw' =
               IF /\ depth >= 26
                  /\ ValueDraw = VALUE_ZERO
                  /\ abs(v1) >= 2 * PawnValueMidgame
                  /\ (v1 - bestValues[20] > 16 \/ v1 - bestValues[20] < -16)
               THEN v1 ELSE ValueDraw
          /\ IF v1 >= beta
             THEN /\ beta' = Min(beta + aspirationDelta, VALUE_INFINITE)
                  /\ aspirationDelta' = aspirationDelta + aspirationDelta \div 2
                  /\ UNCHANGED <<alpha, AspirationFailLow, StopOnPonderhit>>
                  /\ pc' = IF abs(v1) < VALUE_KNOWN_WIN THEN "root_entry"
                           ELSE "iter_collect"
             ELSE IF v1 <= alpha
             THEN /\ AspirationFailLow' = TRUE
                  /\ StopOnPonderhit' = FALSE
                  /\ alpha' = Max(alpha - aspirationDelta, -VALUE_INFINITE)
                  /\ aspirationDelta' = aspirationDelta + aspirationDelta \div 2
                  /\ beta' = beta
                  /\ pc' = IF abs(v1) < VALUE_KNOWN_WIN THEN "root_entry"
                           ELSE "iter_collect"
             ELSE /\ pc' = "iter_collect"
                  /\ UNCHANGED <<alpha, beta, aspirationDelta, AspirationFailLow,
                                 StopOnPonderhit>>
  /\ UNCHANGED <<thFrame, argVars, Limits, StopRequest, QuitRequest, FirstRootMove,
                 MultiPV, SkillLevelEnabled, LastValue,
                 depth, bestMove, ponderMove, easyMove, skillBest, skillPonder,
                 bestValues, rootVars, out, thinkRet, histVars>>

\* id_loop(): from "Collect info about search result" to the end of the
\* iteration.  rnd is what the random generator gives do_skill_level(), the
\* booleans are the comparisons of the clock and of the node counts.
IterCollect ==
  /\ pc = "iter_collect"
  /\ bestMove' = Rml[1].pv[1]
  /\ ponderMove' = PvAt(Rml[1], 1)
  /\ bestValues' = [bestValues EXCEPT ![depth] = value]
  /\ IF SkillLevelEnabled /\ depth = 1 + SkillLevel
     THEN \E rnd \in [1..Len(Rml) -> RandSamples(SkillLevel)] :
            LET r == do_skill_level(Rml, MultiPV, SkillLevel, rnd, skillBest,
                                    skillPonder) IN
            /\ skillBest' = r[1]
            /\ skillPonder' = r[2]
     ELSE UNCHANGED <<skillBest, skillPonder>>
  /\ easyMove' =
       IF depth = 1 /\ (Len(Rml) = 1
                        \/ Rml[1].pv_score > Rml[2].pv_score + EasyMoveMargin)
       THEN bestMove'
       ELSE IF bestMove' # easyMove THEN MOVE_NONE ELSE easyMove
  /\ \E tOver62 \in BOOLEAN, easyNodes \in BOOLEAN :
       LET tm == ~StopRequest /\ useTimeManagement(Limits)
           mateStop == /\ depth >= 5
                       /\ abs(bestValues'[depth]) >= VALUE_MATE_IN_PLY_MAX
                       /\ abs(bestValues'[depth - 1]) >= VALUE_MATE_IN_PLY_MAX
                       /\ abs(bestValues'[depth]) > abs(bestValues'[depth - 1])
           easyStop == /\ depth >= 7
                       /\ easyMove' = bestMove'
                       /\ (Len(Rml) = 1 \/ easyNodes)
           stop == mateStop \/ easyStop \/ tOver62
           latch == tm /\ stop /\ Limits.ponder
       IN
       /\ StopRequest' = IF tm THEN stop /\ ~latch ELSE StopRequest
       /\ StopOnPonderhit' = IF latch THEN TRUE ELSE StopOnPonderhit
  /\ lastDone' = IF StopRequest THEN lastDone
                 ELSE [iter |-> depth, bestMove |-> bestMove',
                       ponderMove |-> ponderMove', Rml |-> Rml, TT |-> TT]
  /\ pc' = "iter_head"
  /\ UNCHANGED <<thFrame, argVars, Limits, QuitRequest, AspirationFailLow, FirstRootMove,
                 MultiPV, SkillLevelEnabled, ValueDraw, LastValue, Rml,
                 TT, depth, aspirationDelta, value, alpha,
                 beta, rootVars, out, thinkRet, cmdRead, quitRead,
                 aborted>>

\* id_loop() after its loop: the moves of the skill handicap replace the best
\* and the ponder move, and id_loop() returns bestMove.
IdExit ==
  /\ pc = "id_exit"
  /\ IF SkillLevelEnabled
     THEN /\ IF skillBest = MOVE_NONE
             THEN \E rnd \in [1..Len(Rml) -> RandSamples(SkillLevel)] :
                    LET r == do_skill_level(Rml, MultiPV, SkillLevel, rnd,
                                            skillBest, skillPonder) IN
                    /\ skillBest' = r[1]
                    /\ skillPonder' = r[2]
             ELSE UNCHANGED <<skillBest, skillPonder>>
          /\ bestMove' = skillBest'
          /\ ponderMove' = skillPonder'
     ELSE UNCHANGED <<skillBest, skillPonder, bestMove, ponderMove>>
  /\ pc' = "id_ret"
  /\ UNCHANGED <<thFrame, argVars, globVars, depth, aspirationDelta, value, alpha, beta,
                 easyMove, bestValues, rootVars, out, thinkRet,
                 histVars>>

ThNext ==
  \/ ThinkStart
  \/ BookWait
  \/ IterHead
  \/ RootEntry
  \/ RootMove
  \/ RootReturn
  \/ AspStep
  \/ IterCollect
  \/ IdExit
  \/ ThinkTail
  \/ FinalWait

(***************************************************************************)
(* One node of the tree: search<PvNode, false, Root>() and                 *)
(* qsearch<PvNode>().  The model walks one path down the tree: it enters   *)
(* one of the calls the current node has made and forgets the caller.     *)
(* The calls it does not enter are summarised by the value they return.    *)
(* One position, K, is followed through the transposition table: a node    *)
(* whose position is K probes and stores ndTT, any other node finds no     *)
(* entry.  K is a position that is not in check and whose static value is  *)
(* VALUE_ZERO.                                                             *)
(***************************************************************************)
MaxPly == 3
MaxMoves == 2

RazorDepth == 4 * ONE_PLY
ThreatDepth == 5 * ONE_PLY
IIDMargin == 256
FutilityMarginQS == 128
DEPTH_QS_CHECKS == -ONE_PLY
DEPTH_QS_NO_CHECKS == -2 * ONE_PLY

IIDDepth(PvNode) == IF PvNode THEN 5 * ONE_PLY ELSE 8 * ONE_PLY
SingularExtensionDepth(PvNode) == IF PvNode THEN 6 * ONE_PLY ELSE 8 * ONE_PLY

razor_margin(d) == 512 + 16 * d

\* int(log(double(d * d) / 2) / log(2.0) + 1.001) of init_search(), d in 1..15
FutilityLog(d) ==
  IF d <= 1 THEN 0 ELSE IF d = 2 THEN 2 ELSE IF d = 3 THEN 3
  ELSE IF d <= 5 THEN 4 ELSE IF d <= 7 THEN 5 ELSE IF d <= 11 THEN 6 ELSE 7

futility_margin(d, mn) ==
  IF d < 7 * ONE_PLY
  THEN 112 * FutilityLog(Max(d, 1)) - 8 * Min(mn, 63) + 45
  ELSE 2 * VALUE_INFINITE

\* reduction<PvNode>(d, mn) for mn <= 3: Reductions[][Min(d / 2, 63)][mn] of
\* init_search(), floor(x * ONE_PLY) when x >= 1 with
\* x = 0.33 + ln(hd) ln(mn) / 2.25 (NonPV) or ln(hd) ln(mn) / 3 (PV).
reduction(PvNode, d, mn) ==
  LET hd == Min(d \div 2, 63) IN
  IF mn <= 1 \/ hd < 1 THEN 0
  ELSE IF PvNode
       THEN IF mn = 2 THEN 0
            ELSE IF hd >= 61 THEN 3 ELSE IF hd >= 16 THEN 2 ELSE 0
       ELSE IF mn = 2
            THEN IF hd >= 45 THEN 3 ELSE IF hd >= 9 THEN 2 ELSE 0
            ELSE IF hd >= 31 THEN 4 ELSE IF hd >= 11 THEN 3
                 ELSE IF hd >= 4 THEN 2 ELSE 0

\* ok_to_use_TT() with every mate score taken at any depth
ok_to_use_TT_AnyMate(tte, d, b, ply) ==
  LET v == value_from_tt(tte.value, ply) IN
  /\ \/ tte.depth >= d
     \/ v >= VALUE_MATE_IN_PLY_MAX
     \/ v <= VALUE_MATED_IN_PLY_MAX
  /\ \/ tte.type \in {VALUE_TYPE_LOWER, VALUE_TYPE_EXACT} /\ v >= b
     \/ tte.type \in {VALUE_TYPE_UPPER, VALUE_TYPE_EXACT} /\ v < b

ok_to_use_TT(tte, d, b, ply) ==
  LET v == value_from_tt(tte.value, ply) IN
  /\ \/ tte.depth >= d
     \/ v >= Max(VALUE_MATE_IN_PLY_MAX, b)
     \/ v < Min(VALUE_MATED_IN_PLY_MAX, b)
  /\ \/ tte.type \in {VALUE_TYPE_LOWER, VALUE_TYPE_EXACT} /\ v >= b
     \/ tte.type \in {VALUE_TYPE_UPPER, VALUE_TYPE_EXACT} /\ v < b

refine_eval(tte, defaultEval, ply) ==
  LET v == value_from_tt(tte.value, ply) IN
  IF \/ tte.type \in {VALUE_TYPE_LOWER, VALUE_TYPE_EXACT} /\ v >= defaultEval
     \/ tte.type \in {VALUE_TYPE_UPPER, VALUE_TYPE_EXACT} /\ v < defaultEval
  THEN v ELSE defaultEval

\* Static evaluations: evaluate() is outside search.cpp; a value of
\* [-VALUE_MATE, VALUE_MATE].
BigEval == 5 * PawnValueMidgame
EvalSamples == {-BigEval, BigEval, VALUE_MATE}
KEval == VALUE_ZERO

\* A value just below the mate scores.
BandValue == VALUE_MATE_IN_PLY_MAX - 50

\* What a call that the walk does not enter returns: VALUE_DRAW (step 2, or
\* a draw), value_mated_in(ply) (step 19, or the end of qsearch), or the
\* static evaluation on which a qsearch without captures stands pat.
Returns(c) ==
  {VALUE_DRAW, value_mated_in(c.ply), -BandValue, -VALUE_MATE}

\* The inline search<PvNode>() that sends depths below ONE_PLY to qsearch.
\* where: "same" for a call on the caller's SearchStack entry and position,
\* "child" for a call on ss+1 after a move or a null move.
SearchCall(site, where, PvNode, a, b, d, skip, excl) ==
  [site |-> site, where |-> where,
   fn |-> IF d < ONE_PLY THEN "qsearch" ELSE "search",
   PvNode |-> PvNode, Root |-> FALSE, alpha |-> a, beta |-> b,
   depth |-> IF d < ONE_PLY THEN DEPTH_ZERO ELSE d,
   ply |-> IF where = "same" THEN nd.ply ELSE nd.ply + 1,
   skipNullMove |-> skip, excludedMove |-> excl,
   pEval |-> IF where = "same" THEN nd.pEval ELSE nd.eval,
   pReduction |-> IF where = "same" THEN nd.pReduction ELSE DEPTH_ZERO,
   sIsK |-> where = "same" /\ nd.isK, kWalk |-> nd.kWalk,
   sInCheck |-> where = "same" /\ nd.inCheck,
   sEval |-> IF where = "same" THEN nd.eval ELSE VALUE_NONE,
   sBroken |-> where = "same" /\ nd.brokenThreat,
   ValueDraw |-> nd.ValueDraw, LastValue |-> nd.LastValue]

QCall(site, where, PvNode, a, b, d) ==
  [SearchCall(site, where, PvNode, a, b, DEPTH_ZERO, FALSE, FALSE)
     EXCEPT !.depth = d]

\* The assertions at the head of search() and of qsearch().
EntryAssert(c) ==
  /\ c.alpha >= -VALUE_INFINITE /\ c.alpha <= VALUE_INFINITE
  /\ IF c.fn = "search"
     THEN c.beta > c.alpha /\ c.beta <= VALUE_INFINITE
     ELSE c.beta >= -VALUE_INFINITE /\ c.beta <= VALUE_INFINITE /\ c.depth <= 0
  /\ c.PvNode \/ c.alpha = c.beta - 1

NoNd ==
  [fn |-> "none", PvNode |-> FALSE, Root |-> FALSE, ply |-> 0, depth |-> 0,
   alpha |-> 0, beta |-> 0, oldAlpha |-> 0, betaIn |-> 0, inCheck |-> FALSE,
   eval |-> VALUE_NONE, pEval |-> VALUE_NONE, pReduction |-> DEPTH_ZERO,
   refinedValue |-> -VALUE_INFINITE, bestValue |-> -VALUE_INFINITE,
   moveCount |-> 0, skipNullMove |-> FALSE, excludedMove |-> FALSE,
   brokenThreat |-> FALSE, tte |-> NoTTE, ttMove |-> FALSE, bestMove |-> FALSE,
   isK |-> FALSE, ValueDraw |-> VALUE_ZERO, LastValue |-> VALUE_NONE,
   leaf |-> FALSE, kWalk |-> "open", ttIn |-> NoTTE]
NoRet == [fn |-> "none", value |-> VALUE_ZERO, ply |-> 0, Root |-> FALSE, site |-> "none"]
NoStore == [fn |-> "none", type |-> VALUE_TYPE_NONE, value |-> VALUE_NONE, v |-> VALUE_ZERO,
            alpha |-> 0, beta |-> 0, ply |-> 0, Root |-> FALSE]

\* The iterations of id_loop() whose root call the walk starts from, and the
\* values bestValues[depth - 1] they start with.
RootIters == {1, 4, 36}
SeekDepth == 4 * ONE_PLY
PrevValues == {VALUE_ZERO, 2 * PawnValueMidgame + 4}

\* id_loop() calling search<PV, false, true>(pos, ss, alpha, beta,
\* depth * ONE_PLY) with MultiPV == 1: the window is infinite before
\* iteration 5 and is bestValues[depth - 1] -+ aspirationDelta from then on;
\* ValueDraw and LastValue are set from bestValues[depth - 1] at the head of
\* the iteration.
RootCalls ==
  { [site |-> "id_loop", where |-> "root", fn |-> "search", PvNode |-> TRUE,
     Root |-> TRUE,
     alpha |-> IF it >= 5 THEN Max(bv - delta, -VALUE_INFINITE) ELSE -VALUE_INFINITE,
     beta |-> IF it >= 5 THEN Min(bv + delta, VALUE_INFINITE) ELSE VALUE_INFINITE,
     depth |-> it * ONE_PLY, ply |-> 1, skipNullMove |-> FALSE,
     excludedMove |-> FALSE, pEval |-> VALUE_NONE, pReduction |-> DEPTH_ZERO,
     sIsK |-> FALSE, kWalk |-> "open", sInCheck |-> FALSE, sEval |-> VALUE_NONE, sBroken |-> FALSE,
     ValueDraw |-> IF it >= 26 /\ abs(bv) >= 2 * PawnValueMidgame /\ moved
                   THEN bv ELSE VALUE_ZERO,
     LastValue |-> IF it >= 36 /\ abs(bv) >= 2 * PawnValueMidgame
                      /\ abs(bv) < VALUE_KNOWN_WIN /\ ~moved
                   THEN abs(bv) ELSE VALUE_NONE] :
    it \in RootIters, bv \in PrevValues, delta \in {16}, moved \in BOOLEAN }

NdIdle ==
  /\ nd = NoNd /\ ndpc = "idle" /\ ndCalls = {} /\ ndRet = NoRet
  /\ ndTT = [k \in TTKeys |-> NoTTE] /\ ndStore = NoStore

NdInit ==
  /\ nd = NoNd /\ ndpc = "ret" /\ ndCalls = {} /\ ndRet = NoRet
  /\ ndTT = [k \in TTKeys |-> NoTTE] /\ ndStore = NoStore

\* think() and id_loop() make the next root call.  think() empties the
\* table when the option Clear Hash is set (TT.clear()); while the table
\* holds an entry of K the walk is one of depth SeekDepth that goes to K.
NdRootCall ==
  /\ ndpc = "ret"
  /\ \E clearHash \in BOOLEAN :
       /\ ndTT' = IF clearHash THEN [k \in TTKeys |-> NoTTE] ELSE ndTT
       /\ ndCalls' = IF ndTT'[<<>>].present
                     THEN {[c EXCEPT !.kWalk = "seek"] :
                             c \in {r \in RootCalls : r.depth = SeekDepth}}
                     ELSE RootCalls
  /\ ndpc' = "call"
  /\ nd' = NoNd
  /\ ndRet' = NoRet
  /\ ndStore' = NoStore
  /\ UNCHANGED ndFrame

\* A return statement of search() or qsearch().
NdReturn(v, site) ==
  /\ ndRet' = [fn |-> nd.fn, value |-> v, ply |-> nd.ply, Root |-> nd.Root, site |-> site]
  /\ ndpc' = "ret"
  /\ nd' = NoNd

\* What a call finds when it is entered: whether its position is K, whether
\* step 2 returns (StopRequest, a cutoff at a split point above, a draw, or
\* ply > PLY_MAX), whether the side to move is in check, and what evaluate()
\* gives.  A call on the caller's stack entry has the caller's position.
\* K is met at most once on a path, since a position does not come back
\* within MaxPly plies; a walk that starts with K in the table (kWalk =
\* "seek") goes straight to K and ends with it.
EntryInputs(c) ==
  IF c.where = "same"
  THEN { [isK |-> c.sIsK /\ ~c.excludedMove, abort |-> ab, inCheck |-> c.sInCheck,
          ev |-> c.sEval] : ab \in BOOLEAN }
  ELSE (IF c.kWalk \in {"open", "seek"} /\ ~c.Root
        THEN { [isK |-> TRUE, abort |-> FALSE, inCheck |-> FALSE, ev |-> KEval] }
        ELSE {})
       \cup
       (IF c.kWalk \in {"open", "met"} \/ c.Root
        THEN { [isK |-> FALSE, abort |-> ab, inCheck |-> chk,
                ev |-> IF chk THEN VALUE_NONE ELSE ev] :
               ab \in (IF c.Root THEN {FALSE} ELSE BOOLEAN), chk \in BOOLEAN,
               ev \in EvalSamples }
        ELSE {})

\* search<PvNode, false, Root>() from its head to the end of step 5: the
\* entry assertions, step 2, mate distance pruning, the probe of the
\* transposition table with its cutoff, and the static evaluation.
SearchEntry ==
  \E c \in ndCalls : \E in \in EntryInputs(c) :
    /\ EntryAssert(c)
    /\ c.fn = "search"
    /\ c.where = "same" => c.excludedMove
    /\ c.ply <= MaxPly
    /\ ~nd.leaf
    /\ LET a1 == IF c.Root THEN c.alpha ELSE Max(value_mated_in(c.ply), c.alpha)
           b1 == IF c.Root THEN c.beta ELSE Min(value_mate_in(c.ply + 1), c.beta)
           probe == IF in.isK THEN ndTT[<<>>] ELSE NoTTE
           ttMove == c.Root \/ probe.move # MOVE_NONE
           tte == IF TTEntryUsable(probe, in.inCheck) THEN probe ELSE NoTTE
           cut == /\ ~c.Root
                  /\ tte.present
                  /\ tte.value # VALUE_NONE
                  /\ IF c.PvNode
                     THEN /\ tte.depth >= c.depth
                          /\ tte.type = VALUE_TYPE_EXACT
                          /\ tte.value > a1 /\ tte.value < b1
                     ELSE ok_to_use_TT(tte, c.depth, b1, c.ply)
           ev == IF in.inCheck THEN VALUE_NONE
                 ELSE IF tte.present THEN KEval ELSE in.ev
           refined == IF in.inCheck THEN -VALUE_INFINITE
                      ELSE IF tte.present /\ tte.value # VALUE_NONE
                           THEN refine_eval(tte, ev, c.ply)
                           ELSE ev
           entered == [NoNd EXCEPT
                         !.fn = "search", !.PvNode = c.PvNode, !.Root = c.Root,
                         !.ply = c.ply, !.depth = c.depth,
                         !.alpha = a1, !.beta = b1,
                         !.oldAlpha = c.alpha, !.betaIn = c.beta,
                         !.inCheck = in.inCheck, !.eval = ev, !.pEval = c.pEval,
                         !.pReduction = c.pReduction, !.refinedValue = refined,
                         !.skipNullMove = c.skipNullMove,
                         !.excludedMove = c.excludedMove,
                         !.brokenThreat = c.sBroken,
                         !.tte = tte, !.ttMove = ttMove, !.isK = in.isK,
                         !.leaf = (c.where = "same"
                                   \/ (in.isK /\ c.kWalk = "seek")),
                         !.kWalk = IF in.isK THEN "met" ELSE c.kWalk,
                         !.ttIn = probe,
                         !.ValueDraw = c.ValueDraw, !.LastValue = c.LastValue]
       IN
       /\ nd' = IF (~c.Root /\ in.abort) \/ (~c.Root /\ a1 >= b1) \/ cut
                THEN NoNd ELSE entered
       /\ ndpc' = IF (~c.Root /\ in.abort) \/ (~c.Root /\ a1 >= b1) \/ cut
                  THEN "ret" ELSE IF c.Root THEN "moves" ELSE "razoring"
       /\ ndRet' = IF ~c.Root /\ in.abort
                   THEN [fn |-> "search", value |-> VALUE_DRAW, ply |-> c.ply,
                         Root |-> FALSE, site |-> "step 2"]
                   ELSE IF ~c.Root /\ a1 >= b1
                   THEN [fn |-> "search", value |-> a1, ply |-> c.ply,
                         Root |-> FALSE, site |-> "step 3"]
                   ELSE IF cut
                   THEN [fn |-> "search", value |-> value_from_tt(tte.value, c.ply),
                         ply |-> c.ply, Root |-> FALSE, site |-> "step 4"]
                   ELSE ndRet
       /\ ndTT' = IF (~c.Root /\ in.abort) \/ (~c.Root /\ a1 >= b1) \/ cut
                     \/ in.inCheck \/ tte.present \/ ~in.isK
                  THEN ndTT
                  ELSE TTStore(ndTT, <<>>, VALUE_NONE, VALUE_TYPE_NONE, DEPTH_NONE,
                               MOVE_NONE, TRUE)
    /\ ndCalls' = {}
    /\ UNCHANGED <<ndStore, ndFrame>>

\* The value of a captured piece that qsearch() adds to futilityBase.
PieceSamples == {PawnValueMidgame}

\* qsearch<PvNode>() from its head to its move loop: the entry assertions,
\* the draw test, the probe with its cutoff, the static evaluation and the
\* stand pat.
QEntry ==
  \E c \in ndCalls : \E in \in EntryInputs(c) :
  \E stalemate \in (IF c.PvNode /\ ~in.inCheck THEN BOOLEAN ELSE {FALSE}) :
    /\ EntryAssert(c)
    /\ c.fn = "qsearch"
    /\ c.ply <= MaxPly + 1
    /\ ~nd.leaf
    /\ LET probe == IF in.isK THEN ndTT[<<>>] ELSE NoTTE
           ttDepth == IF in.inCheck \/ c.depth >= DEPTH_QS_CHECKS
                      THEN DEPTH_QS_CHECKS ELSE DEPTH_QS_NO_CHECKS
           tte == IF TTEntryUsable(probe, in.inCheck) THEN probe ELSE NoTTE
           cut == /\ ~c.PvNode
                  /\ tte.present
                  /\ tte.value # VALUE_NONE
                  /\ ok_to_use_TT(tte, ttDepth, c.beta, c.ply)
           ev == IF in.inCheck THEN VALUE_NONE
                 ELSE IF tte.present THEN KEval ELSE in.ev
           best == IF in.inCheck THEN -VALUE_INFINITE
                   ELSE IF /\ tte.present
                           /\ tte.value # VALUE_NONE
                           /\ \/ ~c.PvNode
                              \/ tte.type = VALUE_TYPE_EXACT
                              \/ abs(tte.value) >= VALUE_KNOWN_WIN
                        THEN refine_eval(tte, ev, c.ply)
                        ELSE ev
           standPat == ~in.inCheck /\ best >= c.beta
           returns == in.abort \/ cut \/ stalemate \/ standPat
           entered == [NoNd EXCEPT
                         !.fn = "qsearch", !.PvNode = c.PvNode, !.ply = c.ply,
                         !.depth = c.depth,
                         !.alpha = IF ~in.inCheck /\ c.PvNode /\ best > c.alpha
                                   THEN best ELSE c.alpha,
                         !.beta = c.beta, !.oldAlpha = c.alpha, !.betaIn = c.beta,
                         !.inCheck = in.inCheck, !.eval = ev,
                         !.bestValue = best, !.tte = tte,
                         !.ttMove = probe.move # MOVE_NONE, !.isK = in.isK,
                         !.leaf = (c.where = "same"
                                   \/ (in.isK /\ c.kWalk = "seek")),
                         !.kWalk = IF in.isK THEN "met" ELSE c.kWalk,
                         !.ttIn = probe]
       IN
       /\ nd' = IF returns THEN NoNd ELSE entered
       /\ ndpc' = IF returns THEN "ret" ELSE "qmoves"
       /\ ndRet' = IF in.abort
                   THEN [fn |-> "qsearch", value |-> VALUE_DRAW, ply |-> c.ply,
                         Root |-> FALSE, site |-> "draw"]
                   ELSE IF cut
                   THEN [fn |-> "qsearch", value |-> value_from_tt(tte.value, c.ply),
                         ply |-> c.ply, Root |-> FALSE, site |-> "tt"]
                   ELSE IF stalemate
                   THEN [fn |-> "qsearch", value |-> VALUE_DRAW, ply |-> c.ply,
                         Root |-> FALSE, site |-> "stalemate"]
                   ELSE IF standPat
                   THEN [fn |-> "qsearch", value |-> best, ply |-> c.ply,
                         Root |-> FALSE, site |-> "stand pat"]
                   ELSE ndRet
       /\ ndTT' = IF in.isK /\ ~in.abort /\ ~cut /\ ~stalemate /\ standPat
                     /\ ~tte.present
                  THEN TTStore(ndTT, <<>>, VALUE_NONE, VALUE_TYPE_NONE, DEPTH_NONE,
                               MOVE_NONE, TRUE)
                  ELSE ndTT
    /\ ndCalls' = {}
    /\ UNCHANGED <<ndStore, ndFrame>>

\* The test of the evasions as it would be without the look at bestValue
evasionPrunableBlind(inCheck, bestValue) == inCheck

\* "Detect non-capture evasions that are candidate to be pruned": what the
\* test asks of the node; the move has to be a non capture and the side to
\* move without castling right.
evasionPrunable(inCheck, bestValue) ==
  inCheck /\ bestValue > VALUE_MATED_IN_PLY_MAX

\* One turn of the move loop of qsearch(): the move is pruned by futility,
\* pruned for its SEE or as a useless check, or searched.
QMove ==
  /\ ndpc = "qmoves"
  /\ nd.alpha < nd.beta
  /\ nd.moveCount < MaxMoves
  /\ \E how \in {"futility", "skip", "search"} :
     \E piece \in PieceSamples :
       LET futilityBase == nd.eval + FutilityMarginQS
           futilityValue == futilityBase + piece
           c == QCall("qsearch move", "child", nd.PvNode, -nd.beta, -nd.alpha,
                      nd.depth - ONE_PLY)
       IN
       \/ /\ how = "futility"
          /\ ~nd.PvNode /\ ~nd.inCheck
          /\ futilityValue < nd.beta
          /\ nd' = [nd EXCEPT !.moveCount = @ + 1,
                              !.bestValue = Max(@, futilityValue)]
          /\ ndCalls' = {}
       \/ /\ how = "skip"
          /\ ~nd.PvNode
          /\ ~nd.inCheck \/ evasionPrunable(nd.inCheck, nd.bestValue)
          /\ nd' = [nd EXCEPT !.moveCount = @ + 1]
          /\ ndCalls' = {}
       \/ /\ how = "search"
          /\ \E r \in Returns(c) :
               LET v == -r IN
               nd' = [nd EXCEPT !.moveCount = @ + 1,
                                !.bestValue = Max(@, v),
                                !.alpha = IF v > nd.bestValue /\ v > @ THEN v ELSE @,
                                !.bestMove = IF v > nd.bestValue /\ v > nd.alpha
                                             THEN TRUE ELSE @]
          /\ ndCalls' = {c}
  /\ ndpc' = "qmoves"
  /\ UNCHANGED <<ndRet, ndTT, ndStore, ndFrame>>

\* The end of qsearch(): mate, or the store of the result and its return.
QFinish ==
  /\ ndpc = "qmoves"
  /\ LET ttDepth == IF nd.inCheck \/ nd.depth >= DEPTH_QS_CHECKS
                    THEN DEPTH_QS_CHECKS ELSE DEPTH_QS_NO_CHECKS
         mated == nd.inCheck /\ nd.bestValue = -VALUE_INFINITE
         vt == BoundType(nd.bestValue, nd.oldAlpha, nd.beta)
     IN
     /\ ndTT' = IF nd.isK /\ ~mated
                THEN TTStore(ndTT, <<>>, value_to_tt(nd.bestValue, nd.ply), vt,
                             ttDepth, IF nd.bestMove THEN 1 ELSE MOVE_NONE, TRUE)
                ELSE ndTT
     /\ ndStore' = IF mated THEN ndStore
                   ELSE [fn |-> "qsearch", type |-> vt,
                         value |-> value_to_tt(nd.bestValue, nd.ply),
                         v |-> nd.bestValue, alpha |-> nd.oldAlpha,
                         beta |-> nd.betaIn, ply |-> nd.ply, Root |-> FALSE]
     /\ NdReturn(IF mated THEN value_mated_in(nd.ply) ELSE nd.bestValue,
                 IF mated THEN "mate" ELSE "end")
  /\ ndCalls' = {}
  /\ UNCHANGED ndFrame

\* specialEval of search(); captured: pos.captured_piece_type() is not zero.
specialEval(captured) ==
  IF nd.inCheck
  THEN IF captured THEN -VALUE_NONE ELSE -nd.pEval
  ELSE IF nd.pEval # VALUE_NONE THEN Min(-nd.pEval, nd.eval) ELSE nd.eval

\* Steps 6 and 7: razoring, with its qsearch<NonPV>(rbeta-1, rbeta), and
\* static null move pruning.  What the position has to allow (no pawn on the
\* 7th rank, non-pawn material) is free, so the steps can always be passed.
Razoring ==
  /\ ndpc = "razoring"
  /\ LET low == /\ ~nd.PvNode /\ nd.depth < RazorDepth /\ ~nd.inCheck
                /\ abs(nd.beta) < VALUE_MATE_IN_PLY_MAX
         rbeta == nd.beta - razor_margin(nd.depth)
         c == QCall("razoring", "same", FALSE, rbeta - 1, rbeta, DEPTH_ZERO)
         margin == futility_margin(nd.depth, 0)
     IN
     \/ /\ low
        /\ nd.refinedValue + razor_margin(nd.depth) < nd.beta
        /\ ~nd.ttMove /\ ~nd.excludedMove
        /\ ndCalls' = {c}
        /\ \E v \in Returns(c) :
             IF v < rbeta
             THEN NdReturn(v, "razoring")
             ELSE ndpc' = "valuedraw" /\ UNCHANGED <<nd, ndRet>>
     \/ /\ low
        /\ ~nd.skipNullMove
        /\ nd.refinedValue - margin >= nd.beta
        /\ ndCalls' = {}
        /\ NdReturn(nd.refinedValue - margin, "static null move")
     \/ /\ ndCalls' = {}
        /\ ndpc' = "valuedraw"
        /\ UNCHANGED <<nd, ndRet>>
  /\ UNCHANGED <<ndTT, ndStore, ndFrame>>

\* The search below alpha of a position that may be a fortress, taken while
\* ValueDraw is set: search<PvNode>(lowAlpha, PvNode ? beta : lowAlpha+1, d).
ValueDrawSearch ==
  /\ ndpc = "valuedraw"
  /\ \/ \E captured \in (IF nd.inCheck THEN BOOLEAN ELSE {FALSE}), pawns \in BOOLEAN,
          quiet \in BOOLEAN :
        LET se == specialEval(captured)
            d == nd.depth + nd.pReduction
            lowAlpha == IF pawns THEN se + CDiv(se, 6) - d - (d - 40) * 3
                      ELSE se - nd.depth
            c == SearchCall("value draw", "same", nd.PvNode, lowAlpha,
                            IF nd.PvNode THEN nd.beta ELSE lowAlpha + 1, d,
                            nd.skipNullMove, nd.excludedMove)
        IN
        /\ ~nd.Root
        /\ nd.ValueDraw # VALUE_ZERO
        /\ d >= 20 * ONE_PLY
        /\ se + 250 < nd.alpha
        /\ nd.alpha < -abs(nd.ValueDraw)
        /\ ~nd.excludedMove
        /\ se > -VALUE_KNOWN_WIN
        /\ ndCalls' = {c}
        /\ \E v \in Returns(c) :
             IF v > lowAlpha /\ quiet
             THEN NdReturn(Max(v, -abs(nd.ValueDraw)), "value draw")
             ELSE IF v <= lowAlpha
             THEN NdReturn(v, "value draw low")
             ELSE ndpc' = "nullmove" /\ UNCHANGED <<nd, ndRet>>
     \/ /\ ndCalls' = {}
        /\ ndpc' = "nullmove"
        /\ UNCHANGED <<nd, ndRet>>
  /\ UNCHANGED <<ndTT, ndStore, ndFrame>>

\* The node goes on to its next step.
NdGo(to, node) == ndpc' = to /\ nd' = node /\ ndRet' = ndRet

\* Step 8: the null move search, the verification searches that follow a
\* fail high at depth >= 8 * ONE_PLY, and after a fail low the probcut search
\* of a capture and the threat tests.
NullMove ==
  /\ ndpc = "nullmove"
  /\ \/ /\ ~nd.PvNode /\ ~nd.skipNullMove /\ nd.depth > ONE_PLY /\ ~nd.inCheck
        /\ nd.refinedValue >= nd.beta
        /\ abs(nd.beta) < VALUE_MATE_IN_PLY_MAX
        /\ LET R == 3 * ONE_PLY + nd.depth \div 4
                    + (IF nd.refinedValue - PawnValueMidgame > nd.beta
                       THEN ONE_PLY ELSE 0)
               cNull == SearchCall("null move", "child", FALSE, -nd.beta, -nd.alpha,
                                   nd.depth - R, TRUE, FALSE)
           IN
           \E rn \in Returns(cNull) :
             IF -rn >= nd.beta
             THEN
               LET nullValue == IF -rn >= VALUE_MATE_IN_PLY_MAX THEN nd.beta ELSE -rn
               IN
               IF nd.depth < 8 * ONE_PLY
               THEN ndCalls' = {cNull} /\ NdReturn(nullValue, "null move")
               ELSE
                 \E threat \in BOOLEAN, deeper \in BOOLEAN, pawn \in BOOLEAN :
                   LET rBeta == IF /\ nd.eval - Max(abs(nd.beta) \div 2 - 100, 149)
                                        > nd.beta
                                   /\ ~threat
                                THEN Min(nd.eval - 149,
                                         nd.beta + (nd.depth * nd.depth) \div 4)
                                ELSE nd.beta
                       cVer == SearchCall("verification", "same", FALSE, rBeta - 1,
                                          rBeta, nd.depth - R, TRUE, nd.excludedMove)
                       rBeta2 == rBeta - nd.depth
                       cEx == SearchCall("verification excluded", "same", FALSE,
                                         rBeta2 - 1, rBeta2,
                                         nd.depth \div 2 - 2 * ONE_PLY, TRUE, TRUE)
                   IN
                   \E v \in Returns(cVer) :
                     IF v >= rBeta /\ deeper
                     THEN
                       \E v2 \in Returns(cEx) :
                         /\ ndCalls' = {cNull, cVer, cEx}
                         /\ IF v2 < rBeta2 /\ pawn /\ nd.pReduction # DEPTH_ZERO
                            THEN NdReturn(nd.alpha, "broken threat")
                            ELSE IF v2 >= rBeta2
                            THEN NdReturn(nullValue, "verified")
                            ELSE NdGo("iid",
                                      [nd EXCEPT !.excludedMove = FALSE,
                                                 !.brokenThreat = @ \/ pawn])
                     ELSE
                       /\ ndCalls' = {cNull, cVer}
                       /\ IF v >= rBeta
                          THEN NdReturn(nullValue, "verified")
                          ELSE NdGo("iid", nd)
             ELSE
               \E capture \in (IF nd.depth < 8 * ONE_PLY THEN BOOLEAN ELSE {FALSE}),
                  material \in BOOLEAN, connected \in BOOLEAN :
                 LET rBeta == Max(nd.beta + 200, Min(nd.eval + 100, VALUE_KNOWN_WIN))
                     cPc == SearchCall("probcut", "child", FALSE, -rBeta, -rBeta + 1,
                                       nd.depth - 4 * ONE_PLY, FALSE, FALSE)
                     broken == -rn <= VALUE_MATED_IN_PLY_MAX /\ material
                     linked == /\ nd.depth < ThreatDepth
                               /\ nd.pReduction # DEPTH_ZERO /\ connected
                 IN
                 \E rp \in (IF capture THEN Returns(cPc) ELSE {VALUE_INFINITE}) :
                   /\ ndCalls' = IF capture THEN {cNull, cPc} ELSE {cNull}
                   /\ IF capture /\ -rp >= rBeta
                      THEN NdReturn(-rp, "probcut")
                      ELSE IF (broken /\ nd.pReduction # DEPTH_ZERO) \/ linked
                      THEN NdReturn(nd.alpha, "threat")
                      ELSE NdGo("iid", [nd EXCEPT !.brokenThreat = @ \/ broken])
     \/ /\ ndCalls' = {}
        /\ NdGo("iid", nd)
  /\ UNCHANGED <<ndTT, ndStore, ndFrame>>

\* Step 9: internal iterative deepening, search<PvNode>(alpha, beta, d) on
\* the node's own stack entry, whose move and value become the local entry
\* rtte.
IID ==
  /\ ndpc = "iid"
  /\ IF /\ nd.depth >= IIDDepth(nd.PvNode)
        /\ ~nd.ttMove
        /\ \/ nd.PvNode
           \/ nd.beta = VALUE_ZERO
           \/ nd.brokenThreat
           \/ ~nd.inCheck /\ nd.eval + IIDMargin >= nd.beta
     THEN LET d == IF nd.PvNode THEN nd.depth - 2 * ONE_PLY ELSE nd.depth \div 2
              c == SearchCall("iid", "same", nd.PvNode, nd.alpha, nd.beta, d,
                              TRUE, nd.excludedMove)
          IN
          /\ ndCalls' = {c}
          /\ \E v \in Returns(c) :
             \E found \in (IF v > nd.alpha THEN BOOLEAN ELSE {FALSE}) :
               NdGo("lastvalue",
                    [nd EXCEPT
                       !.skipNullMove = nd.excludedMove,
                       !.ttMove = found,
                       !.tte = IF found
                               THEN [move |-> 1, value |-> v,
                                     type |-> VALUE_TYPE_LOWER, depth |-> d,
                                     sv |-> FALSE, present |-> TRUE]
                               ELSE @])
     ELSE /\ ndCalls' = {}
          /\ NdGo("lastvalue", nd)
  /\ UNCHANGED <<ndTT, ndStore, ndFrame>>

\* The searches around -LastValue at depth >= 30 * ONE_PLY.
LastValueSearch ==
  /\ ndpc = "lastvalue"
  /\ \E captured \in (IF nd.inCheck THEN BOOLEAN ELSE {FALSE}),
        firstRootMove \in BOOLEAN :
       LET se == specialEval(captured)
           rBeta == Min(VALUE_ZERO, Max(-2 * PawnValueMidgame, se) - nd.depth)
           lowAlpha == -nd.LastValue + 48
           c1 == SearchCall("last value", "same", FALSE, rBeta - 1, rBeta,
                            nd.depth \div 2, TRUE, nd.excludedMove)
           c2 == SearchCall("last value alpha", "same", FALSE, lowAlpha, lowAlpha + 1,
                            nd.depth, TRUE, nd.excludedMove)
       IN
       IF /\ ~nd.Root
          /\ nd.depth >= 30 * ONE_PLY
          /\ se - 650 > nd.beta
          /\ -nd.LastValue > nd.alpha
          /\ -nd.LastValue <= nd.beta
          /\ nd.alpha + 32 >= nd.beta
          /\ ~nd.excludedMove
       THEN
         \E v1 \in Returns(c1) :
         \E v2 \in (IF v1 < rBeta /\ nd.PvNode THEN Returns(c2) ELSE {v1}) :
           /\ ndCalls' = IF v1 < rBeta /\ nd.PvNode THEN {c1, c2} ELSE {c1}
           /\ IF v2 < rBeta /\ v2 > lowAlpha
              THEN NdReturn(-nd.LastValue - 1, "last value")
              ELSE IF ~nd.PvNode \/ ~firstRootMove
              THEN NdReturn(v2, "last value search")
              ELSE NdGo("threat", [nd EXCEPT !.skipNullMove = FALSE])
       ELSE /\ ndCalls' = {}
            /\ NdGo("threat", nd)
  /\ UNCHANGED <<ndTT, ndStore, ndFrame>>

\* The search of the moves that may refute the transposition table move, at
\* a NonPV node with beta == VALUE_ZERO: -search<NonPV>(0, 1, d) of each.
ThreatSearch ==
  /\ ndpc = "threat"
  /\ \/ /\ ~nd.PvNode
        /\ nd.depth >= 8 * ONE_PLY
        /\ nd.beta = VALUE_ZERO
        /\ nd.eval >= VALUE_ZERO
        /\ ~nd.skipNullMove
        /\ ~nd.brokenThreat
        /\ nd.tte.present /\ nd.tte.move # MOVE_NONE
        /\ nd.tte.value >= nd.beta
        /\ nd.tte.type \in {VALUE_TYPE_LOWER, VALUE_TYPE_EXACT}
        /\ \E pawn \in BOOLEAN, moves \in BOOLEAN :
             LET d == IF pawn THEN nd.depth - ONE_PLY
                      ELSE nd.depth - 4 * ONE_PLY - nd.depth \div 4
                 c == SearchCall("threat", "child", FALSE, VALUE_ZERO,
                                 VALUE_ZERO + 1, d, FALSE, FALSE)
             IN
             \E r \in (IF moves THEN Returns(c) ELSE {VALUE_INFINITE}) :
               /\ ndCalls' = IF moves THEN {c} ELSE {}
               /\ IF moves /\ -r >= VALUE_ZERO
                  THEN NdReturn(-r, "threat")
                  ELSE IF nd.pReduction # DEPTH_ZERO
                  THEN NdReturn(nd.alpha, "threat broken")
                  ELSE NdGo("moves", [nd EXCEPT !.brokenThreat = TRUE])
     \/ /\ ndCalls' = {}
        /\ NdGo("moves", nd)
  /\ UNCHANGED <<ndTT, ndStore, ndFrame>>

\* One turn of the move loop of search(), steps 10 to 17 (MultiPV == 1): the
\* singular extension search of the transposition table move, futility
\* pruning, the reduced, the full depth and the PV search of the move, and
\* the new best value and alpha.
MoveStep ==
  /\ ndpc = "moves"
  /\ nd.bestValue < nd.beta
  /\ nd.moveCount < MaxMoves
  /\ LET moveCount == nd.moveCount + 1
         isPvMove == nd.PvNode
                     /\ moveCount <= (IF nd.Root /\ nd.depth <= ONE_PLY THEN 1000 ELSE 1)
         singularExtensionNode ==
           /\ ~nd.Root
           /\ nd.depth >= SingularExtensionDepth(nd.PvNode)
           /\ nd.tte.present /\ nd.tte.move # MOVE_NONE
           /\ ~nd.excludedMove
           /\ nd.tte.type \in {VALUE_TYPE_LOWER, VALUE_TYPE_EXACT}
           /\ (nd.tte.depth >= nd.depth - 3 * ONE_PLY \/ nd.brokenThreat)
         ttValue == value_from_tt(nd.tte.value, nd.ply)
         rBeta == ttValue - nd.depth
         cSing == SearchCall("singular", "same", FALSE, rBeta - 1, rBeta,
                             nd.depth \div 2, TRUE, TRUE)
     IN
     \E ext0 \in {DEPTH_ZERO}, far \in BOOLEAN :
     \E vs \in (IF singularExtensionNode /\ moveCount = 1 /\ ext0 < ONE_PLY
                   /\ abs(ttValue) < VALUE_KNOWN_WIN
                THEN Returns(cSing) ELSE {VALUE_NONE}) :
       LET sing == vs # VALUE_NONE
           ext == IF ~sing THEN ext0
                  ELSE IF vs < rBeta THEN ONE_PLY
                  ELSE IF far THEN -(ONE_PLY \div 2) ELSE ext0
           newDepth == nd.depth - ONE_PLY + ext
           predictedDepth == newDepth - reduction(FALSE, nd.depth, moveCount)
           futilityValueScaled ==
             nd.eval + futility_margin(predictedDepth, moveCount)
           prunable == /\ ~nd.PvNode /\ ~nd.inCheck
                       /\ nd.bestValue > VALUE_MATED_IN_PLY_MAX
                       /\ abs(nd.beta) < VALUE_MATE_IN_PLY_MAX
       IN
       \/ /\ prunable
          /\ futilityValueScaled < nd.beta
          /\ ndCalls' = IF sing THEN {cSing} ELSE {}
          /\ NdGo("moves", [nd EXCEPT !.moveCount = moveCount,
                                      !.bestValue = Max(@, futilityValueScaled)])
       \/ /\ prunable
          /\ predictedDepth < 2 * ONE_PLY
          /\ ndCalls' = IF sing THEN {cSing} ELSE {}
          /\ NdGo("moves", [nd EXCEPT !.moveCount = moveCount])
       \/ \E quiet \in (IF nd.depth >= 3 * ONE_PLY /\ ~isPvMove
                        THEN BOOLEAN ELSE {FALSE}) :
            LET red == IF quiet THEN reduction(nd.PvNode, nd.depth, moveCount)
                       ELSE DEPTH_ZERO
                cRed == [SearchCall("reduced", "child", FALSE, -(nd.alpha + 1),
                                    -nd.alpha, Max(ONE_PLY, newDepth - red),
                                    FALSE, FALSE)
                           EXCEPT !.pReduction = red]
                cFull == SearchCall("full depth", "child", FALSE, -(nd.alpha + 1),
                                    -nd.alpha, newDepth, FALSE, FALSE)
                cPv == SearchCall("pv", "child", TRUE, -nd.beta, -nd.alpha, newDepth,
                                  FALSE, FALSE)
            IN
            \E r1 \in (IF quiet THEN Returns(cRed) ELSE {VALUE_NONE}) :
              LET doFull == IF quiet THEN -r1 > nd.alpha /\ red # DEPTH_ZERO
                            ELSE ~isPvMove
              IN
              \E r2 \in (IF doFull THEN Returns(cFull) ELSE {r1}) :
                LET doPv == nd.PvNode
                            /\ (isPvMove
                                \/ (-r2 > nd.alpha /\ (nd.Root \/ -r2 < nd.beta)))
                IN
                \E r3 \in (IF doPv THEN Returns(cPv) ELSE {r2}) :
                  LET v == -r3
                      better == v > nd.bestValue
                      best == IF better
                                 /\ (v - nd.LastValue # 1 \/ ~nd.PvNode \/ nd.Root
                                     \/ isPvMove)
                              THEN v ELSE nd.bestValue
                      a == IF nd.Root
                           THEN IF v > nd.alpha
                                THEN v - (IF v = VALUE_ZERO /\ nd.eval > VALUE_ZERO
                                          THEN 1 ELSE 0)
                                ELSE nd.alpha
                           ELSE IF better /\ v > nd.alpha /\ nd.PvNode /\ v < nd.beta
                                THEN v ELSE nd.alpha
                      vd == IF /\ nd.Root
                               /\ isPvMove \/ v > nd.alpha
                               /\ \/ a >= nd.ValueDraw /\ nd.ValueDraw < VALUE_ZERO
                                  \/ a <= nd.ValueDraw /\ nd.ValueDraw > VALUE_ZERO
                            THEN VALUE_ZERO ELSE nd.ValueDraw
                  IN
                  /\ ndCalls' = (IF sing THEN {cSing} ELSE {})
                                \cup (IF quiet THEN {cRed} ELSE {})
                                \cup (IF doFull THEN {cFull} ELSE {})
                                \cup (IF doPv THEN {cPv} ELSE {})
                  /\ NdGo("moves",
                          [nd EXCEPT !.moveCount = moveCount, !.bestValue = best,
                                     !.alpha = a, !.ValueDraw = vd,
                                     !.bestMove = @ \/ (better /\ v > nd.alpha)])
  /\ UNCHANGED <<ndTT, ndStore, ndFrame>>

\* The return of step 19 as it would be without the excluded move
NoMoveValuePlain(excludedMove, oldAlpha, inCheck, ply) ==
  IF inCheck THEN value_mated_in(ply) ELSE VALUE_DRAW

\* "return excludedMove ? oldAlpha : inCheck ? value_mated_in(ss->ply) :
\* VALUE_DRAW"
NoMoveValue(excludedMove, oldAlpha, inCheck, ply) ==
  IF excludedMove THEN oldAlpha
  ELSE IF inCheck THEN value_mated_in(ply) ELSE VALUE_DRAW

\* Steps 19 and 20 and the return of search(): mate, stalemate or the fail
\* low of an excluded-move search when no move was searched, else the store
\* of bestValue with its bound type, unless the search was stopped.
Finish ==
  /\ ndpc = "moves"
  /\ nd.Root => nd.moveCount >= 1
  /\ \E stopped \in BOOLEAN :
       LET vt == BoundType(nd.bestValue, nd.oldAlpha, nd.beta)
           stores == nd.moveCount > 0 /\ ~stopped
       IN
       /\ ndTT' = IF stores /\ nd.isK
                  THEN TTStore(ndTT, <<>>, value_to_tt(nd.bestValue, nd.ply), vt,
                               IF nd.brokenThreat THEN DEPTH_NONE ELSE nd.depth,
                               IF nd.bestMove THEN 1 ELSE MOVE_NONE, ~nd.inCheck)
                  ELSE ndTT
       /\ ndStore' = IF stores
                     THEN [fn |-> "search", type |-> vt,
                           value |-> value_to_tt(nd.bestValue, nd.ply),
                           v |-> nd.bestValue, alpha |-> nd.oldAlpha,
                           beta |-> nd.betaIn, ply |-> nd.ply, Root |-> nd.Root]
                     ELSE ndStore
       /\ IF nd.moveCount = 0
          THEN NdReturn(NoMoveValue(nd.excludedMove, nd.oldAlpha, nd.inCheck,
                                    nd.ply), "step 19")
          ELSE NdReturn(nd.bestValue, "end")
  /\ ndCalls' = {}
  /\ UNCHANGED ndFrame

NdNext ==
  \/ NdRootCall \/ SearchEntry \/ QEntry \/ QMove \/ QFinish
  \/ Razoring \/ ValueDrawSearch \/ NullMove \/ IID \/ LastValueSearch
  \/ ThreatSearch \/ MoveStep \/ Finish

(***************************************************************************)
(* The thread pool: ThreadsManager::idle_loop(), the end of a split point  *)
(* search in search(), and split() around them.                            *)
(*                                                                         *)
(* Thread 0 is the thread that runs think(); the others start in           *)
(* idle_loop(threadID, NULL).  callStack[t] is the sequence of calls       *)
(* thread t is in, innermost last: "think", "idle_loop" with its split     *)
(* point sp (0 for NULL), "search" for search<PvNode, true, false>() on a  *)
(* split point.  split(), Thread::wake_up() and the start and end of the   *)
(* pool are in thread.cpp and are modelled from the split protocol.        *)
(***************************************************************************)
NThreads == 3
MaxSplitPoints == 2
MaxSpMoves == 1
\* A thread splits below a split point in the pools of at most
\* MaxNestedThreads active threads.
MaxNestedThreads == 2

ThreadIds == 0..(NThreads - 1)
SplitPointIds == 1..MaxSplitPoints

NoSplitPoint ==
  [active |-> FALSE, master |-> 0, is_slave |-> [i \in ThreadIds |-> FALSE],
   lock |-> FALSE, moves |-> 0, joined |-> {}]

NoFrame ==
  [fn |-> "none", sp |-> 0, pc |-> "none", i |-> 0, allFinished |-> FALSE,
   grabbed |-> FALSE, master |-> 0]

NoIdleRet ==
  [sp |-> 0, threadID |-> 0, is_slave |-> [i \in ThreadIds |-> FALSE],
   state |-> "none", grabbed |-> FALSE, joined |-> {}]

Frame(fn, sp, at) == [NoFrame EXCEPT !.fn = fn, !.sp = sp, !.pc = at]

Top(t) == IF callStack[t] = <<>> THEN NoFrame ELSE callStack[t][Len(callStack[t])]

\* The thread goes on at another place of its innermost call.
SetTop(t, f) == [callStack EXCEPT ![t] = [@ EXCEPT ![Len(@)] = f]]

IlIdle ==
  /\ threads = <<>> /\ splitPoints = <<>> /\ allThreadsShouldExit = FALSE
  /\ activeThreads = 0 /\ useSleepingThreads = FALSE
  /\ callStack = <<>> /\ idleRet = NoIdleRet

\* The pool after its start: thread 0 searches, the other threads have just
\* been created.
IlInit ==
  /\ threads = [t \in ThreadIds |->
                  [state |-> IF t = 0 THEN "SEARCHING" ELSE "INITIALIZING",
                   splitPoint |-> 0, sleepLock |-> FALSE, sleeping |-> FALSE]]
  /\ splitPoints = [s \in SplitPointIds |-> NoSplitPoint]
  /\ allThreadsShouldExit = FALSE
  /\ activeThreads \in 2..NThreads
  /\ useSleepingThreads \in BOOLEAN
  /\ callStack = [t \in ThreadIds |->
                    IF t = 0 THEN <<Frame("think", 0, "run")>>
                    ELSE <<Frame("idle_loop", 0, "top")>>]
  /\ idleRet = NoIdleRet

\* A loop over is_slave[] that looks at no flag.
ScanGoesOnBlind(sp, i) == sp # 0 /\ i < activeThreads

\* The test of the loops that look for a slave still at work:
\* for (i = 0; sp && i < activeThreads && !sp->is_slave[i]; i++) {}
ScanGoesOn(sp, i) ==
  sp # 0 /\ i < activeThreads /\ ~splitPoints[sp].is_slave[i]

\* The innermost split point that thread t is the master of and waits for.
WaitsFor(t) ==
  LET own == {k \in 1..Len(callStack[t]) :
                callStack[t][k].fn = "idle_loop" /\ callStack[t][k].sp # 0}
  IN IF own = {} THEN 0
     ELSE callStack[t][CHOOSE k \in own : \A j \in own : j <= k].sp

\* thread_is_available(slave, master): the slave is idle, and if it waits
\* for a split point of its own, master is one of the slaves of that split
\* point (the helpful master).
thread_is_available(slave, master) ==
  /\ slave # master
  /\ slave < activeThreads
  /\ threads[slave].state = "AVAILABLE"
  /\ WaitsFor(slave) = 0 \/ splitPoints[WaitsFor(slave)].is_slave[master]

\* Thread::wake_up() of each thread of ws: under the thread's sleepLock, the
\* condition the thread may be waiting on is signalled.
CanWake(ws) == \A w \in ws : ~threads[w].sleepLock

\* The head of the loop of idle_loop(): with allThreadsShouldExit the thread
\* ends as TERMINATED and idle_loop() returns; else the test of the waiting
\* loop.
IdleTop(t) ==
  /\ Top(t).fn = "idle_loop" /\ Top(t).pc = "top"
  /\ IF allThreadsShouldExit
     THEN /\ threads' = [threads EXCEPT ![t].state = "TERMINATED"]
          /\ callStack' = [callStack EXCEPT ![t] = SubSeq(@, 1, Len(@) - 1)]
          /\ idleRet' = IF Top(t).sp = 0 THEN idleRet
                        ELSE [sp |-> Top(t).sp, threadID |-> t,
                              is_slave |-> splitPoints[Top(t).sp].is_slave,
                              state |-> "TERMINATED", grabbed |-> Top(t).grabbed,
                              joined |-> splitPoints[Top(t).sp].joined]
     ELSE /\ callStack' =
               SetTop(t, [Top(t) EXCEPT !.pc =
                            IF \/ t >= activeThreads
                               \/ threads[t].state = "INITIALIZING"
                               \/ useSleepingThreads /\ threads[t].state = "AVAILABLE"
                            THEN "sleep" ELSE "work"])
          /\ UNCHANGED <<threads, idleRet>>
  /\ UNCHANGED <<splitPoints, allThreadsShouldExit, activeThreads,
                 useSleepingThreads, ilFrame>>

\* The test of the waiting loop when it has gone round.
IdleWhile(t) ==
  /\ Top(t).fn = "idle_loop" /\ Top(t).pc = "while"
  /\ callStack' =
       SetTop(t, [Top(t) EXCEPT !.pc =
                    IF \/ t >= activeThreads
                       \/ threads[t].state = "INITIALIZING"
                       \/ useSleepingThreads /\ threads[t].state = "AVAILABLE"
                    THEN "sleep" ELSE "work"])
  /\ UNCHANGED <<threads, splitPoints, allThreadsShouldExit, activeThreads,
                 useSleepingThreads, idleRet, ilFrame>>

\* Where the thread goes at a loop over is_slave[]: with sp == NULL the loop
\* ends at once with i == 0 and allFinished false.
ScanOr(scan, after, t) == IF Top(t).sp = 0 THEN after ELSE scan

\* In the waiting loop: INITIALIZING becomes AVAILABLE and the thread grabs
\* its sleepLock.
IdleGrabSleepLock(t) ==
  /\ Top(t).fn = "idle_loop" /\ Top(t).pc = "sleep"
  /\ ~threads[t].sleepLock
  /\ threads' = [threads EXCEPT
                   ![t].state = IF @ = "INITIALIZING" THEN "AVAILABLE" ELSE @,
                   ![t].sleepLock = TRUE]
  /\ callStack' = SetTop(t, [Top(t) EXCEPT !.pc = ScanOr("sleep_scan", "sleep_test", t)])
  /\ UNCHANGED <<splitPoints, allThreadsShouldExit, activeThreads,
                 useSleepingThreads, idleRet, ilFrame>>

\* One turn of the loop over is_slave[] in the waiting loop, or its end with
\* allFinished = (i == activeThreads).
IdleSleepScan(t) ==
  /\ Top(t).fn = "idle_loop" /\ Top(t).pc = "sleep_scan"
  /\ callStack' =
       SetTop(t, IF ScanGoesOn(Top(t).sp, Top(t).i)
                 THEN [Top(t) EXCEPT !.i = @ + 1]
                 ELSE [Top(t) EXCEPT !.pc = "sleep_test", !.i = 0,
                                     !.allFinished = (Top(t).i = activeThreads)])
  /\ UNCHANGED <<threads, splitPoints, allThreadsShouldExit, activeThreads,
                 useSleepingThreads, idleRet, ilFrame>>

\* The end of the waiting loop: it is left when all slaves have finished or
\* the pool ends, else the thread waits on its condition, or goes round.
IdleSleepTest(t) ==
  /\ Top(t).fn = "idle_loop" /\ Top(t).pc = "sleep_test"
  /\ IF Top(t).allFinished \/ allThreadsShouldExit
     THEN /\ threads' = [threads EXCEPT ![t].sleepLock = FALSE]
          /\ callStack' = SetTop(t, [Top(t) EXCEPT !.pc = "work",
                                                   !.allFinished = FALSE])
     ELSE IF t >= activeThreads \/ threads[t].state = "AVAILABLE"
     THEN /\ threads' = [threads EXCEPT ![t].sleepLock = FALSE,
                                        ![t].sleeping = TRUE]
          /\ callStack' = SetTop(t, [Top(t) EXCEPT !.pc = "cond_wait",
                                                   !.allFinished = FALSE])
     ELSE /\ threads' = [threads EXCEPT ![t].sleepLock = FALSE]
          /\ callStack' = SetTop(t, [Top(t) EXCEPT !.pc = "while",
                                                   !.allFinished = FALSE])
  /\ UNCHANGED <<splitPoints, allThreadsShouldExit, activeThreads,
                 useSleepingThreads, idleRet, ilFrame>>

\* cond_wait() returns after a signal, and the sleepLock is released.
IdleWake(t) ==
  /\ Top(t).fn = "idle_loop" /\ Top(t).pc = "cond_wait"
  /\ ~threads[t].sleeping
  /\ ~threads[t].sleepLock
  /\ callStack' = SetTop(t, [Top(t) EXCEPT !.pc = "while"])
  /\ UNCHANGED <<threads, splitPoints, allThreadsShouldExit, activeThreads,
                 useSleepingThreads, idleRet, ilFrame>>

\* A thread that has been given work becomes SEARCHING and calls
\* search<PvNode, true, false>() on tsp = threads[threadID].splitPoint; the
\* frame keeps tsp->master, which does not change while the call lasts.
\* threads[threadID].splitPoint is read nowhere else and is kept only until
\* it is read.
IdleWork(t) ==
  /\ Top(t).fn = "idle_loop" /\ Top(t).pc = "work"
  /\ IF threads[t].state = "WORKISWAITING"
     THEN /\ threads' = [threads EXCEPT ![t].state = "SEARCHING",
                                        ![t].splitPoint = 0]
          /\ callStack' =
               [callStack EXCEPT ![t] =
                  Append([@ EXCEPT ![Len(@)] =
                            [Top(t) EXCEPT
                               !.pc = "searched",
                               !.master = splitPoints[threads[t].splitPoint].master]],
                         Frame("search", threads[t].splitPoint, "enter"))]
     ELSE /\ callStack' = SetTop(t, [Top(t) EXCEPT !.pc = ScanOr("scan", "top", t)])
          /\ UNCHANGED threads
  /\ UNCHANGED <<splitPoints, allThreadsShouldExit, activeThreads,
                 useSleepingThreads, idleRet, ilFrame>>

\* Back from the search of the split point: the thread is AVAILABLE again.
IdleSearched(t) ==
  /\ Top(t).fn = "idle_loop" /\ Top(t).pc = "searched"
  /\ threads' = [threads EXCEPT ![t].state = "AVAILABLE"]
  /\ callStack' = SetTop(t, [Top(t) EXCEPT !.pc = "wake"])
  /\ UNCHANGED <<splitPoints, allThreadsShouldExit, activeThreads,
                 useSleepingThreads, idleRet, ilFrame>>

\* A slave that wakes nobody up
WakesMasterNever(t, master) == FALSE

\* "useSleepingThreads && threadID != tsp->master
\*  && threads[tsp->master].state == Thread::AVAILABLE"
WakesMaster(t, master) ==
  /\ useSleepingThreads
  /\ t # master
  /\ threads[master].state = "AVAILABLE"

\* The slave wakes the master of the split point up when the master is
\* AVAILABLE, so that it can leave idle_loop() after its last slave.
IdleWakeMaster(t) ==
  /\ Top(t).fn = "idle_loop" /\ Top(t).pc = "wake"
  /\ IF WakesMaster(t, Top(t).master)
     THEN /\ CanWake({Top(t).master})
          /\ threads' = [threads EXCEPT ![Top(t).master].sleeping = FALSE]
     ELSE UNCHANGED threads
  /\ callStack' = SetTop(t, [Top(t) EXCEPT !.pc = ScanOr("scan", "top", t),
                                           !.master = 0])
  /\ UNCHANGED <<splitPoints, allThreadsShouldExit, activeThreads,
                 useSleepingThreads, idleRet, ilFrame>>

\* One turn of the loop over is_slave[] at the end of the body, or its end:
\* with allFinished the master goes on to return, else the loop starts again.
IdleScan(t) ==
  /\ Top(t).fn = "idle_loop" /\ Top(t).pc = "scan"
  /\ callStack' =
       SetTop(t, IF ScanGoesOn(Top(t).sp, Top(t).i)
                 THEN [Top(t) EXCEPT !.i = @ + 1]
                 ELSE [Top(t) EXCEPT
                         !.i = 0,
                         !.pc = IF Top(t).i = activeThreads THEN "lock" ELSE "top"])
  /\ UNCHANGED <<threads, splitPoints, allThreadsShouldExit, activeThreads,
                 useSleepingThreads, idleRet, ilFrame>>

\* lock_grab(&(sp->lock)) of the master that has seen all slaves finished.
IdleLock(t) ==
  /\ Top(t).fn = "idle_loop" /\ Top(t).pc = "lock"
  /\ ~splitPoints[Top(t).sp].lock
  /\ splitPoints' = [splitPoints EXCEPT ![Top(t).sp].lock = TRUE]
  /\ callStack' = SetTop(t, [Top(t) EXCEPT !.pc = "unlock", !.grabbed = TRUE])
  /\ UNCHANGED <<threads, allThreadsShouldExit, activeThreads,
                 useSleepingThreads, idleRet, ilFrame>>

\* lock_release(&(sp->lock)), the state SEARCHING and the return of
\* idle_loop() into split(), which gives the split point back.
IdleReturn(t) ==
  /\ Top(t).fn = "idle_loop" /\ Top(t).pc = "unlock"
  /\ LET sp == Top(t).sp
     IN
     /\ idleRet' = [sp |-> sp, threadID |-> t,
                    is_slave |-> splitPoints[sp].is_slave,
                    state |-> "SEARCHING", grabbed |-> Top(t).grabbed,
                    joined |-> splitPoints[sp].joined]
     /\ threads' = [threads EXCEPT ![t].state = "SEARCHING"]
     /\ splitPoints' = [splitPoints EXCEPT ![sp] = NoSplitPoint]
     /\ callStack' = [callStack EXCEPT ![t] = SubSeq(@, 1, Len(@) - 1)]
  /\ UNCHANGED <<allThreadsShouldExit, activeThreads, useSleepingThreads, ilFrame>>

\* search<PvNode, true, false>() comes to its move loop: lock_grab(&(sp->lock)).
SpEnter(t) ==
  /\ Top(t).fn = "search" /\ Top(t).pc = "enter"
  /\ ~splitPoints[Top(t).sp].lock
  /\ splitPoints' = [splitPoints EXCEPT ![Top(t).sp].lock = TRUE]
  /\ callStack' = SetTop(t, [Top(t) EXCEPT !.pc = "pick"])
  /\ UNCHANGED <<threads, allThreadsShouldExit, activeThreads,
                 useSleepingThreads, idleRet, ilFrame>>

\* The thread takes the next move of the split point and releases the lock
\* to search it.
SpPickMove(t) ==
  /\ Top(t).fn = "search" /\ Top(t).pc = "pick"
  /\ splitPoints[Top(t).sp].moves > 0
  /\ splitPoints' = [splitPoints EXCEPT ![Top(t).sp].moves = @ - 1,
                                        ![Top(t).sp].lock = FALSE]
  /\ callStack' = SetTop(t, [Top(t) EXCEPT !.pc = "move"])
  /\ UNCHANGED <<threads, allThreadsShouldExit, activeThreads,
                 useSleepingThreads, idleRet, ilFrame>>

\* The move is searched: lock_grab(&(sp->lock)) for the new best value.
SpMoveDone(t) ==
  /\ Top(t).fn = "search" /\ Top(t).pc = "move"
  /\ ~splitPoints[Top(t).sp].lock
  /\ splitPoints' = [splitPoints EXCEPT ![Top(t).sp].lock = TRUE]
  /\ callStack' = SetTop(t, [Top(t) EXCEPT !.pc = "pick"])
  /\ UNCHANGED <<threads, allThreadsShouldExit, activeThreads,
                 useSleepingThreads, idleRet, ilFrame>>

\* The move loop has ended, for want of a move or for a cutoff, with the
\* lock held: sp->is_slave[threadID] = false.
SpClearSlave(t) ==
  /\ Top(t).fn = "search" /\ Top(t).pc = "pick"
  /\ splitPoints' = [splitPoints EXCEPT ![Top(t).sp].is_slave[t] = FALSE]
  /\ callStack' = SetTop(t, [Top(t) EXCEPT !.pc = "release"])
  /\ UNCHANGED <<threads, allThreadsShouldExit, activeThreads,
                 useSleepingThreads, idleRet, ilFrame>>

\* lock_release(&(sp->lock)) and the return of the split point search.
SpSearchReturn(t) ==
  /\ Top(t).fn = "search" /\ Top(t).pc = "release"
  /\ splitPoints' = [splitPoints EXCEPT ![Top(t).sp].lock = FALSE]
  /\ callStack' = [callStack EXCEPT ![t] = SubSeq(@, 1, Len(@) - 1)]
  /\ UNCHANGED <<threads, allThreadsShouldExit, activeThreads,
                 useSleepingThreads, idleRet, ilFrame>>

\* split(): a searching thread that finds idle threads takes a split point,
\* marks itself and the slaves in is_slave[], gives all of them the work,
\* wakes the slaves up and calls idle_loop(master, &splitPoint).
Split(t) ==
  /\ \/ Top(t).fn = "think" /\ Top(t).pc = "run"
     \/ /\ Top(t).fn = "search" /\ Top(t).pc = "move"
        /\ activeThreads <= MaxNestedThreads
  /\ ~allThreadsShouldExit
  /\ \E s \in SplitPointIds :
     \E slaves \in SUBSET {i \in ThreadIds : thread_is_available(i, t)} :
     \E moves \in 1..MaxSpMoves :
       /\ ~splitPoints[s].active
       /\ slaves # {}
       /\ CanWake(slaves)
       /\ splitPoints' =
            [splitPoints EXCEPT ![s] =
               [active |-> TRUE, master |-> t,
                is_slave |-> [i \in ThreadIds |-> i \in slaves \cup {t}],
                lock |-> FALSE, moves |-> moves, joined |-> slaves \cup {t}]]
       /\ threads' =
            [i \in ThreadIds |->
               IF i \in slaves \cup {t}
               THEN [threads[i] EXCEPT !.state = "WORKISWAITING",
                                       !.splitPoint = s,
                                       !.sleeping = FALSE]
               ELSE threads[i]]
       /\ callStack' = [callStack EXCEPT ![t] = Append(@, Frame("idle_loop", s, "top"))]
  /\ idleRet' = NoIdleRet
  /\ UNCHANGED <<allThreadsShouldExit, activeThreads, useSleepingThreads, ilFrame>>

\* exit_threads(): after its search thread 0 raises allThreadsShouldExit and
\* wakes every thread up.
ExitThreads ==
  /\ Top(0).fn = "think" /\ Top(0).pc = "run"
  /\ CanWake(ThreadIds \ {0})
  /\ allThreadsShouldExit' = TRUE
  /\ threads' = [i \in ThreadIds |-> [threads[i] EXCEPT !.sleeping = FALSE]]
  /\ callStack' = SetTop(0, [Top(0) EXCEPT !.pc = "done"])
  /\ idleRet' = NoIdleRet
  /\ UNCHANGED <<splitPoints, activeThreads, useSleepingThreads, ilFrame>>

\* The steps of thread t in idle_loop() and in the search of a split point
IlThread(t) ==
  \/ IdleTop(t) \/ IdleWhile(t) \/ IdleGrabSleepLock(t) \/ IdleSleepScan(t)
  \/ IdleSleepTest(t) \/ IdleWake(t) \/ IdleWork(t) \/ IdleSearched(t)
  \/ IdleWakeMaster(t) \/ IdleScan(t) \/ IdleLock(t) \/ IdleReturn(t)
  \/ SpEnter(t) \/ SpPickMove(t) \/ SpMoveDone(t) \/ SpClearSlave(t)
  \/ SpSearchReturn(t)

IlNext ==
  \/ \E t \in ThreadIds :
       \/ IdleTop(t) \/ IdleWhile(t) \/ IdleGrabSleepLock(t) \/ IdleSleepScan(t)
       \/ IdleSleepTest(t) \/ IdleWake(t) \/ IdleWork(t) \/ IdleSearched(t)
       \/ IdleWakeMaster(t) \/ IdleScan(t) \/ IdleLock(t) \/ IdleReturn(t)
       \/ SpEnter(t) \/ SpPickMove(t) \/ SpMoveDone(t) \/ SpClearSlave(t)
       \/ SpSearchReturn(t) \/ Split(t)
  \/ ExitThreads

(***************************************************************************)
(* search<PvNode, SpNode = true>() at one split point                      *)
(*                                                                         *)
(* The threads that joined a split point run the move loop of search() on  *)
(* the shared SplitPoint: its MovePicker, moveCount, bestValue, bestMove,  *)
(* alpha and is_betaCutoff, guarded by sp->lock.  spAcc holds the accesses *)
(* to the shared fields made by the last step, each with whether the       *)
(* thread held sp->lock; spLog holds the moves handed out.  The child      *)
(* searches of a move are summarised by the value they return.             *)
(***************************************************************************)
SpThreads == 2
SpMoves == 3

SpThreadIds == 1..SpThreads
NoThread == 0

\* Window and values at the split point: alpha below beta, values of the
\* child searches on both sides of them.
SpAlpha == 0
SpBeta(PvNode) == IF PvNode THEN 4 ELSE SpAlpha + 1
SpValues == {-2, 2, 5}
SpLastValues == {VALUE_NONE, 4}

NoSp ==
  [PvNode |-> FALSE, beta |-> 0, alpha |-> 0, bestValue |-> 0,
   bestMove |-> MOVE_NONE, moveCount |-> 0, is_betaCutoff |-> FALSE,
   mp |-> 0, lock |-> NoThread, parentCutoff |-> FALSE, LastValue |-> VALUE_NONE,
   is_slave |-> [t \in SpThreadIds |-> FALSE]]

NoSpLocal ==
  [pc |-> "out", alpha |-> 0, bestValue |-> 0, bestMove |-> MOVE_NONE,
   move |-> MOVE_NONE, moveCount |-> 0, value |-> 0, fut |-> VALUE_NONE]

SpIdle ==
  /\ spt = [t \in SpThreadIds |-> NoSpLocal]
  /\ spShared = NoSp /\ spAcc = {} /\ spLog = {}

\* ThreadsManager::split() has filled the split point from the master's
\* node: at least one move was searched there and bestValue < beta.
SpInit ==
  /\ \E PvNode \in BOOLEAN, lv \in SpLastValues, bv \in {-VALUE_INFINITE + 1, SpAlpha} :
       spShared = [NoSp EXCEPT !.PvNode = PvNode, !.beta = SpBeta(PvNode),
                         !.alpha = SpAlpha, !.bestValue = bv,
                         !.bestMove = MOVE_NONE, !.moveCount = 1,
                         !.LastValue = lv,
                         !.is_slave = [t \in SpThreadIds |-> TRUE]]
  /\ spt = [t \in SpThreadIds |-> [NoSpLocal EXCEPT !.pc = "start", !.alpha = SpAlpha]]
  /\ spAcc = {} /\ spLog = {}

\* One access to a shared field of the split point by thread t.
Acc(t, field, kind) ==
  [thread |-> t, field |-> field, kind |-> kind, locked |-> spShared.lock = t]

\* Thread::cutoff_occurred(): the flag of the thread's split point or of one
\* of its parents.
cutoff_occurred == spShared.is_betaCutoff \/ spShared.parentCutoff

\* A value above alpha is a beta cutoff unless it is a new PV value
SetsCutoffNonPV(PvNode, v, b) == ~PvNode

SetsCutoff(PvNode, v, b) == ~(PvNode /\ v < b)

SpSet(t, l) == spt' = [spt EXCEPT ![t] = l]

\* split_point_start: bestMove = sp->bestMove, before the lock is taken.
SpStart(t) ==
  /\ spt[t].pc = "start"
  /\ SpSet(t, [spt[t] EXCEPT !.pc = "grab", !.bestMove = spShared.bestMove])
  /\ spAcc' = {Acc(t, "bestMove", "read")}
  /\ UNCHANGED <<spShared, spLog, spFrame>>

\* lock_grab(&(sp->lock)); bestValue = sp->bestValue, before the move loop.
SpGrab(t) ==
  /\ spt[t].pc = "grab"
  /\ spShared.lock = NoThread
  /\ spShared' = [spShared EXCEPT !.lock = t]
  /\ SpSet(t, [spt[t] EXCEPT !.pc = "loop", !.bestValue = spShared.bestValue])
  /\ spAcc' = {[Acc(t, "bestValue", "read") EXCEPT !.locked = TRUE]}
  /\ UNCHANGED <<spLog, spFrame>>

\* The move taken with the lock kept
LockKept(t) == t

\* "moveCount = ++sp->moveCount; lock_release(&(sp->lock));"
LockAfterTake(t) == NoThread

\* The condition of the move loop, and for a move that is handed out
\* moveCount = ++sp->moveCount and lock_release(&(sp->lock)).
SpLoop(t) ==
  /\ spt[t].pc = "loop"
  /\ IF spt[t].bestValue >= spShared.beta
     THEN /\ SpSet(t, [spt[t] EXCEPT !.pc = "exit"])
          /\ spAcc' = {}
          /\ UNCHANGED <<spShared, spLog>>
     ELSE IF spShared.mp >= SpMoves
     THEN /\ SpSet(t, [spt[t] EXCEPT !.pc = "exit", !.move = MOVE_NONE])
          /\ spAcc' = {Acc(t, "mp", "write")}
          /\ UNCHANGED <<spShared, spLog>>
     ELSE IF cutoff_occurred
     THEN /\ spShared' = [spShared EXCEPT !.mp = @ + 1]
          /\ SpSet(t, [spt[t] EXCEPT !.pc = "exit", !.move = MOVE_NONE])
          /\ spAcc' = {Acc(t, "mp", "write"), Acc(t, "is_betaCutoff", "read")}
          /\ UNCHANGED spLog
     ELSE /\ spShared' = [spShared EXCEPT !.mp = @ + 1, !.moveCount = @ + 1,
                                           !.lock = LockAfterTake(t)]
          /\ SpSet(t, [spt[t] EXCEPT !.pc = "prune", !.move = spShared.mp + 1,
                                     !.moveCount = spShared.moveCount + 1])
          /\ spAcc' = {Acc(t, "mp", "write"), Acc(t, "is_betaCutoff", "read"),
                       Acc(t, "moveCount", "write")}
          /\ spLog' = spLog \cup {[move |-> spShared.mp + 1, thread |-> t, afterCutoff |-> spShared.is_betaCutoff,
                                   moveCount |-> spShared.moveCount + 1]}
  /\ UNCHANGED spFrame

\* Step 12 at a split point: the move is pruned by its move count or its
\* SEE (fut = VALUE_NONE) or by its futility value (fut < beta), and the
\* thread goes for the lock again; or the move is not pruned.
SpPrune(t) ==
  /\ spt[t].pc = "prune"
  /\ \/ /\ ~spShared.PvNode
        /\ \E fut \in {VALUE_NONE} \cup {v \in SpValues : v < spShared.beta} :
             SpSet(t, [spt[t] EXCEPT !.pc = "regrab", !.fut = fut])
     \/ SpSet(t, [spt[t] EXCEPT !.pc = "search"])
  /\ spAcc' = {}
  /\ UNCHANGED <<spShared, spLog, spFrame>>

\* lock_grab(&(sp->lock)) of a pruned move, with
\* if (futilityValueScaled > sp->bestValue) sp->bestValue = bestValue = ...
SpRegrab(t) ==
  /\ spt[t].pc = "regrab"
  /\ spShared.lock = NoThread
  /\ LET l == [spt[t] EXCEPT !.pc = "loop", !.fut = VALUE_NONE, !.move = MOVE_NONE,
                             !.moveCount = 0] IN
     IF spt[t].fut = VALUE_NONE
     THEN /\ spShared' = [spShared EXCEPT !.lock = t]
          /\ SpSet(t, l)
          /\ spAcc' = {}
     ELSE IF spt[t].fut > spShared.bestValue
     THEN /\ spShared' = [spShared EXCEPT !.lock = t, !.bestValue = spt[t].fut]
          /\ SpSet(t, [l EXCEPT !.bestValue = spt[t].fut])
          /\ spAcc' = {[Acc(t, "bestValue", "write") EXCEPT !.locked = TRUE]}
     ELSE /\ spShared' = [spShared EXCEPT !.lock = t]
          /\ SpSet(t, l)
          /\ spAcc' = {[Acc(t, "bestValue", "read") EXCEPT !.locked = TRUE]}
  /\ UNCHANGED <<spLog, spFrame>>

\* Steps 13 to 16: alpha = sp->alpha, read without the lock before the
\* reduced or the full depth search of the move, and the value of the move.
SpSearchMove(t) ==
  /\ spt[t].pc = "search"
  /\ \E v \in SpValues :
       SpSet(t, [spt[t] EXCEPT !.pc = "done", !.alpha = spShared.alpha, !.value = v])
  /\ spAcc' = {Acc(t, "alpha", "read")}
  /\ UNCHANGED <<spShared, spLog, spFrame>>

\* Step 17 going on with the alpha and bestValue the thread had
Step17Stale(shared, local) == local

\* "alpha = sp->alpha; bestValue = sp->bestValue;" under sp->lock
Step17Read(shared, local) == shared

\* Step 17: lock_grab(&(sp->lock)); alpha = sp->alpha; bestValue = sp->bestValue.
SpDone(t) ==
  /\ spt[t].pc = "done"
  /\ spShared.lock = NoThread
  /\ spShared' = [spShared EXCEPT !.lock = t]
  /\ SpSet(t, [spt[t] EXCEPT
                 !.pc = "best",
                 !.alpha = Step17Read(spShared.alpha, @),
                 !.bestValue = Step17Read(spShared.bestValue, @)])
  /\ spAcc' = {[Acc(t, f, "read") EXCEPT !.locked = TRUE] : f \in {"alpha", "bestValue"}}
  /\ UNCHANGED <<spLog, spFrame>>

\* Step 17: a value above bestValue, unless a cutoff occurred, becomes
\* sp->bestValue and bestValue (not when value - LastValue == 1 at a PV node).
SpBestValue(t) ==
  /\ spt[t].pc = "best"
  /\ LET l == spt[t]
         kept == l.value - spShared.LastValue # 1 \/ ~spShared.PvNode
         back == [l EXCEPT !.pc = "loop", !.move = MOVE_NONE, !.moveCount = 0,
                           !.value = 0]
     IN
     IF l.value > l.bestValue /\ ~cutoff_occurred
     THEN /\ spShared' = [spShared EXCEPT !.bestValue = IF kept THEN l.value ELSE @]
          /\ spAcc' = {Acc(t, "is_betaCutoff", "read")}
                      \cup (IF kept THEN {Acc(t, "bestValue", "write")} ELSE {})
          /\ LET m == [l EXCEPT !.bestValue = IF kept THEN l.value ELSE @] IN
             IF l.value > l.alpha
             THEN SpSet(t, [m EXCEPT !.pc = "alpha"])
             ELSE SpSet(t, [back EXCEPT !.bestValue = m.bestValue])
     ELSE /\ SpSet(t, back)
          /\ spAcc' = (IF l.value > l.bestValue
                       THEN {Acc(t, "is_betaCutoff", "read")} ELSE {})
          /\ UNCHANGED spShared
  /\ UNCHANGED <<spLog, spFrame>>

\* Step 17, value > alpha: sp->alpha = value at a PV node with value < beta,
\* else sp->is_betaCutoff = true; sp->bestMove = move.
SpNewAlpha(t) ==
  /\ spt[t].pc = "alpha"
  /\ LET l == spt[t]
         cut == SetsCutoff(spShared.PvNode, l.value, spShared.beta)
     IN
     /\ spShared' = [spShared EXCEPT !.alpha = IF cut THEN @ ELSE l.value,
                         !.is_betaCutoff = IF cut THEN TRUE ELSE @,
                         !.bestMove = l.move]
     /\ SpSet(t, [l EXCEPT !.pc = "loop", !.alpha = IF cut THEN @ ELSE l.value,
                           !.bestMove = l.move, !.move = MOVE_NONE,
                           !.moveCount = 0, !.value = 0])
     /\ spAcc' = {Acc(t, IF cut THEN "is_betaCutoff" ELSE "alpha", "write"),
                  Acc(t, "bestMove", "write")}
  /\ UNCHANGED <<spLog, spFrame>>

\* After the loop: sp->is_slave[threadID] = false and
\* lock_release(&(sp->lock)), then the return.
SpLeave(t) ==
  /\ spt[t].pc = "exit"
  /\ spShared' = [spShared EXCEPT !.is_slave[t] = FALSE, !.lock = NoThread]
  /\ SpSet(t, [NoSpLocal EXCEPT !.bestValue = spt[t].bestValue])
  /\ spAcc' = {}
  /\ UNCHANGED <<spLog, spFrame>>

\* A thread at a parent split point sets is_betaCutoff there.
SpParentCutoff ==
  /\ ~spShared.parentCutoff
  /\ \E t \in SpThreadIds : spt[t].pc # "out"
  /\ spShared' = [spShared EXCEPT !.parentCutoff = TRUE]
  /\ spAcc' = {}
  /\ UNCHANGED <<spt, spLog, spFrame>>

SplitNext ==
  \/ \E t \in SpThreadIds :
       \/ SpStart(t) \/ SpGrab(t) \/ SpLoop(t) \/ SpPrune(t) \/ SpRegrab(t)
       \/ SpSearchMove(t) \/ SpDone(t) \/ SpBestValue(t) \/ SpNewAlpha(t)
       \/ SpLeave(t)
  \/ SpParentCutoff

(***************************************************************************)
(* value_to_uci()                                                          *)
(*                                                                         *)
(* ucIn is the value given to value_to_uci(), ucOut what it prints: the    *)
(* token "cp" or "mate" and the number after it.                           *)
(***************************************************************************)
NoUci == [kind |-> "none", n |-> 0]

\* The values id_loop() and the root print: every mate score, the values
\* around the boundary between the two forms, and centipawn values of both
\* signs that are and are not multiples of PawnValueMidgame.
UciValues ==
  {value_mate_in(p) : p \in 0..PLY_MAX} \cup
  {value_mated_in(p) : p \in 0..PLY_MAX} \cup
  {VALUE_MATE_IN_PLY_MAX - 1, VALUE_MATED_IN_PLY_MAX + 1, VALUE_ZERO,
   VALUE_KNOWN_WIN, -VALUE_KNOWN_WIN} \cup
  {s * (k * PawnValueMidgame + d) : s \in {-1, 1}, k \in 0..3, d \in {0, 1, 99, 197}}

UcIdle == ucIn = 0 /\ ucOut = NoUci

UcInit == ucIn \in UciValues /\ ucOut = NoUci

\* s << ... : value_to_uci(v) is called and returns its string
UcPrint ==
  /\ ucOut = NoUci
  /\ ucOut' = value_to_uci(ucIn)
  /\ UNCHANGED <<ucIn, ucFrame>>

UcNext == UcPrint

(***************************************************************************)
(* Who polls, who writes StopRequest and what a stop does                  *)
(*                                                                         *)
(* Thread 0 runs think() and id_loop(); every thread runs search() nodes,  *)
(* thread 0 below the root and the others below a split point they were    *)
(* booked for by idle_loop().  plThreads[t] is the call of search() thread *)
(* t is in: its ply, the ply of the node the thread started from, where    *)
(* it stands, and whether StopRequest was set when the call was made.  pl  *)
(* holds the namespace variables poll() works on.  plLog holds the threads *)
(* that wrote StopRequest, the threads that read it as true, and what was  *)
(* done although StopRequest was set: a probe or a store of the            *)
(* transposition table by a call made after the stop, a final update of a  *)
(* node, an update of a RootMove, a new iteration.                         *)
(***************************************************************************)
MaxPollPly == 2
PollEvery == 1

NoPl ==
  [StopRequest |-> FALSE, QuitRequest |-> FALSE, StopOnPonderhit |-> FALSE,
   Limits |-> NoLimits, NodesSincePoll |-> 0]
NoPlThread == [pc |-> "idle", ply |-> 0, base |-> 0, late |-> FALSE]
NoPlLog ==
  [writers |-> {}, readers |-> {}, ttLate |-> FALSE, finalLate |-> FALSE,
   rmLate |-> FALSE, iterLate |-> FALSE, broke |-> FALSE]

PlIdle ==
  /\ pl = NoPl
  /\ plThreads = [t \in ThreadIds |-> NoPlThread]
  /\ plLog = NoPlLog

\* think() has reset StopRequest, QuitRequest, StopOnPonderhit and
\* NodesSincePoll and has entered id_loop(); the other threads are in
\* idle_loop().
PlInit ==
  /\ \E l \in LimitsSamples : pl = [NoPl EXCEPT !.Limits = l]
  /\ plThreads = [t \in ThreadIds |->
                    IF t = 0 THEN [NoPlThread EXCEPT !.pc = "id_loop"]
                    ELSE NoPlThread]
  /\ plLog = [NoPlLog EXCEPT !.writers = {0}]

PlSet(t, l) == plThreads' = [plThreads EXCEPT ![t] = l]

PlRoot(t) == t = 0 /\ plThreads[t].ply = 0 /\ plThreads[t].base = 0

\* The thread that may poll: threadID == 0 at step 1 of search().
PollsHereAny(threadID) == TRUE

PollsHere(threadID) == threadID = 0

\* Step 2: a node that is not the root returns VALUE_DRAW on StopRequest.
StopsAtEntryNever(Root, stop) == FALSE

StopsAtEntry(Root, stop) == ~Root /\ stop

\* Step 20: if (!SpNode && !StopRequest && ...)
FinalUpdate(SpNode, stop) == ~SpNode /\ ~stop

\* The condition of id_loop()'s loop on StopRequest, and the call of
\* search<PV, false, true>() for the root.
PlRootCall ==
  /\ plThreads[0].pc = "id_loop"
  /\ ~pl.StopRequest
  /\ PlSet(0, [pc |-> "step1", ply |-> 0, base |-> 0, late |-> FALSE])
  /\ plLog' = [plLog EXCEPT !.iterLate = @ \/ pl.StopRequest, !.broke = FALSE]
  /\ UNCHANGED <<pl, plFrame>>

\* id_loop() at the end of an iteration: an early stop sets StopRequest, and
\* while pondering StopRequest is reset and StopOnPonderhit set.
PlEarlyStop ==
  /\ plThreads[0].pc = "id_loop"
  /\ ~pl.StopRequest /\ useTimeManagement(pl.Limits)
  /\ pl' = [pl EXCEPT !.StopRequest = ~pl.Limits.ponder,
                      !.StopOnPonderhit = IF pl.Limits.ponder THEN TRUE ELSE @]
  /\ plLog' = [plLog EXCEPT !.writers = @ \cup {0}]
  /\ UNCHANGED <<plThreads, plFrame>>

\* Step 1 of search(): if (threadID == 0 && ++NodesSincePoll >
\* NodesBetweenPolls) { NodesSincePoll = 0; poll(pos); }
PlStep1(t) ==
  /\ plThreads[t].pc = "step1"
  /\ PlSet(t, [plThreads[t] EXCEPT !.pc = "step2"])
  /\ IF ~PollsHere(t)
     THEN UNCHANGED <<pl, plLog>>
     ELSE IF pl.NodesSincePoll + 1 <= PollEvery
     THEN /\ pl' = [pl EXCEPT !.NodesSincePoll = @ + 1]
          /\ UNCHANGED plLog
     ELSE \E in \in PollInputs(pl.Limits) :
            LET p == poll(pl.Limits, pl.StopRequest, pl.QuitRequest,
                          pl.StopOnPonderhit, TRUE, FALSE, in)
                wrote == poll(pl.Limits, FALSE, FALSE, pl.StopOnPonderhit,
                              TRUE, FALSE, in).StopRequest
            IN
            /\ pl' = [pl EXCEPT !.NodesSincePoll = 0, !.Limits = p.Limits,
                                !.StopRequest = p.StopRequest,
                                !.QuitRequest = p.QuitRequest]
            /\ plLog' = [plLog EXCEPT !.writers =
                           IF wrote THEN @ \cup {t} ELSE @]
  /\ UNCHANGED plFrame

\* Steps 2 to 5 of search(): the return of VALUE_DRAW on StopRequest, or
\* the probe of the transposition table and the store of the static value.
PlStep2(t) ==
  /\ plThreads[t].pc = "step2"
  /\ LET l == plThreads[t] IN
     IF StopsAtEntry(PlRoot(t), pl.StopRequest)
     THEN /\ PlSet(t, [l EXCEPT !.pc = IF l.ply = 1 /\ t = 0 /\ l.base = 0
                                       THEN "after" ELSE "moves",
                                !.ply = @ - 1, !.late = FALSE])
          /\ plLog' = [plLog EXCEPT !.readers = @ \cup {t}]
     ELSE /\ PlSet(t, [l EXCEPT !.pc = "moves"])
          /\ plLog' = [plLog EXCEPT !.ttLate = @ \/ l.late]
  /\ UNCHANGED <<pl, plFrame>>

\* The move loop calls search() for the position after a move.
PlChild(t) ==
  /\ plThreads[t].pc = "moves"
  /\ plThreads[t].ply < MaxPollPly
  /\ PlSet(t, [plThreads[t] EXCEPT !.pc = "step1", !.ply = @ + 1,
                                   !.late = pl.StopRequest])
  /\ UNCHANGED <<pl, plLog, plFrame>>

\* Step 18: a node that is not the root splits unless it reads StopRequest as
\* true; the booked threads run search<SpNode>() from split_point_start.
PlSplit(t) ==
  /\ plThreads[t].pc = "moves"
  /\ plThreads[t].ply > 0
  /\ ~pl.StopRequest
  /\ \E slaves \in SUBSET {s \in ThreadIds : plThreads[s].pc = "idle"} :
       /\ slaves # {}
       /\ plThreads' = [s \in ThreadIds |->
                          IF s \in slaves
                          THEN [pc |-> "moves", ply |-> plThreads[t].ply,
                                base |-> plThreads[t].ply, late |-> FALSE]
                          ELSE plThreads[s]]
  /\ UNCHANGED <<pl, plLog, plFrame>>

\* The root after the search of a move: if (StopRequest) break, else the
\* RootMove of the move is updated.
PlAfter ==
  /\ plThreads[0].pc = "after"
  /\ IF RootBreak(pl.StopRequest)
     THEN /\ PlSet(0, [plThreads[0] EXCEPT !.pc = "leave"])
          /\ plLog' = [plLog EXCEPT !.readers = @ \cup {0}, !.broke = TRUE]
     ELSE /\ PlSet(0, [plThreads[0] EXCEPT !.pc = "moves"])
          /\ plLog' = [plLog EXCEPT !.rmLate = @ \/ pl.StopRequest]
  /\ UNCHANGED <<pl, plFrame>>

\* The end of search(): step 20 updates the transposition table, the
\* killers and the history unless the node is a split point or StopRequest
\* is set; the node returns to its caller's move loop, to idle_loop() from a
\* split-point search, or to id_loop() from the root.
PlReturn(t) ==
  /\ plThreads[t].pc \in {"moves", "leave"}
  /\ (plThreads[t].pc = "moves" /\ PlRoot(t)) => ~pl.StopRequest
  /\ LET l == plThreads[t]
         SpNode == l.ply = l.base /\ ~PlRoot(t)
         update == FinalUpdate(SpNode, pl.StopRequest)
     IN
     /\ plLog' = [plLog EXCEPT !.finalLate = @ \/ (update /\ pl.StopRequest)]
     /\ IF l.ply > l.base
        THEN PlSet(t, [l EXCEPT !.ply = @ - 1,
                                !.pc = IF l.ply = 1 /\ t = 0 /\ l.base = 0
                                       THEN "after" ELSE "moves"])
        ELSE IF PlRoot(t)
        THEN PlSet(t, [NoPlThread EXCEPT !.pc = "id_loop"])
        ELSE PlSet(t, NoPlThread)
  /\ UNCHANGED <<pl, plFrame>>

PollNext ==
  \/ PlRootCall
  \/ PlEarlyStop
  \/ PlAfter
  \/ \E t \in ThreadIds :
       PlStep1(t) \/ PlStep2(t) \/ PlChild(t) \/ PlSplit(t) \/ PlReturn(t)

(***************************************************************************)
(* id_loop() over its iterations                                           *)
(*                                                                         *)
(* The iterative deepening loop with the root search summarised by what it *)
(* hands back: its value, the first move of the sorted Rml and what poll() *)
(* has read meanwhile.  dl holds the locals of id_loop() (bv1, bv2, bv3    *)
(* are bestValues[depth - 1], [depth - 2], [depth - 3]), the namespace     *)
(* variables the loop and poll() work on, and the history the properties   *)
(* speak about: the searches of the running iteration, the last line read, *)
(* whether the early stop fired, and the easy move's story.                *)
(***************************************************************************)
MaxDlDepth == 5
MaxDlMoves == 2

\* Values of a root search: two centipawn values an aspiration window
\* apart and two mate scores of different distance.
DlValues == {VALUE_ZERO, 40, value_mate_in(5), value_mate_in(3)}

NoDl ==
  [pc |-> "idle", depth |-> 0, aspirationDelta |-> 0,
   alpha |-> -VALUE_INFINITE, beta |-> VALUE_INFINITE, value |-> VALUE_ZERO,
   bv1 |-> VALUE_ZERO, bv2 |-> VALUE_ZERO, bv3 |-> VALUE_ZERO,
   bestMove |-> MOVE_NONE, easyMove |-> MOVE_NONE, Limits |-> NoLimits,
   StopRequest |-> FALSE, QuitRequest |-> FALSE, StopOnPonderhit |-> FALSE,
   AspirationFailLow |-> FALSE, size |-> 1, top |-> 1, wide |-> FALSE,
   searches |-> 0, cmd |-> "none", fired |-> FALSE, mateFired |-> FALSE,
   latched |-> FALSE,
   cond1 |-> FALSE, agreed |-> TRUE]

DlIdle == dl = NoDl

\* id_loop() before its loop, for a search with time management or with
\* "go infinite", pondering or not, and one or two root moves.
DlInit ==
  \E l \in {s \in LimitsSamples : s.maxDepth = 0 /\ s.maxNodes = 0},
     n \in 1..MaxDlMoves :
    dl = [NoDl EXCEPT !.pc = "head", !.Limits = l, !.size = n]

\* id_loop() before iteration 5 of a search to depth 5, whose root searches
\* may return any value: the value is taken at the bounds of the window and
\* inside it.  Iteration 4 has returned a value near a known win or a known
\* loss, so that one bound has far to go and the other has not.
DlAspInit ==
  \E v1 \in {-(VALUE_KNOWN_WIN - 100), VALUE_KNOWN_WIN - 100} :
    dl = [NoDl EXCEPT !.pc = "head", !.depth = 4, !.bv1 = v1,
                      !.Limits = [NoLimits EXCEPT !.maxDepth = 5],
                      !.wide = TRUE]

\* The stop on two mate scores as it would be with a growing mate distance
MateStopWider(d, last, prev) ==
  /\ d >= 5
  /\ abs(last) >= VALUE_MATE_IN_PLY_MAX
  /\ abs(prev) >= VALUE_MATE_IN_PLY_MAX
  /\ abs(last) < abs(prev)

\* "Stop search early when the last two iterations returned a mate score"
MateStop(d, last, prev) ==
  /\ d >= 5
  /\ abs(last) >= VALUE_MATE_IN_PLY_MAX
  /\ abs(prev) >= VALUE_MATE_IN_PLY_MAX
  /\ abs(last) > abs(prev)

\* The aspiration window of an iteration
AspWindow(bv1, bv2, bv3) ==
  LET prevDelta1 == bv1 - bv2
      prevDelta2 == bv2 - bv3
      d0 == Min(Max(abs(prevDelta1) + abs(prevDelta2) \div 2, 16), 24)
      d1 == ((d0 + 7) \div 8) * 8
      known == abs(bv1) >= VALUE_KNOWN_WIN
  IN [aspirationDelta |-> d1,
      alpha |-> IF known THEN -VALUE_INFINITE
                ELSE Max(bv1 - d1, -VALUE_INFINITE),
      beta |-> IF known THEN VALUE_INFINITE
               ELSE Min(bv1 + d1, VALUE_INFINITE)]

\* The condition of the iteration loop and the head of its body.  MultiPV
\* is 1.
DlHead ==
  /\ dl.pc = "head"
  /\ LET d == dl.depth + 1
         goes == /\ ~dl.StopRequest /\ d <= PLY_MAX /\ d <= MaxDlDepth
                 /\ (dl.Limits.maxDepth = 0 \/ d <= dl.Limits.maxDepth)
         w == AspWindow(dl.bv1, dl.bv2, dl.bv3)
     IN
     IF ~goes
     THEN dl' = [dl EXCEPT !.pc = "exit"]
     ELSE dl' = [dl EXCEPT !.pc = "search", !.depth = d, !.searches = 0,
                           !.fired = FALSE, !.cmd = "none",
                           !.aspirationDelta = IF d >= 5 THEN w.aspirationDelta ELSE @,
                           !.alpha = IF d >= 5 THEN w.alpha ELSE @,
                           !.beta = IF d >= 5 THEN w.beta ELSE @]
  /\ UNCHANGED dlFrame

\* What a root search may return: in the searches of an ordinary game the
\* sample values, in the adversarial search a value at either bound of the
\* window and one inside it.
DlReturns ==
  IF dl.wide THEN {dl.alpha, dl.beta, (dl.alpha + dl.beta) \div 2}
  ELSE DlValues

\* What poll() is given: anything in the searches of an ordinary game, "stop"
\* or nothing in the adversarial search.
DlPollInputs ==
  IF dl.wide THEN {NoInput, [NoInput EXCEPT !.cmd = "stop"]}
  ELSE PollInputs(dl.Limits)

\* One call of poll() during a root search
DlPoll ==
  /\ dl.pc = "search"
  /\ ~dl.StopRequest
  /\ \E in \in DlPollInputs, first \in BOOLEAN :
       LET r == poll(dl.Limits, dl.StopRequest, dl.QuitRequest,
                     dl.StopOnPonderhit, first, dl.AspirationFailLow, in)
       IN dl' = [dl EXCEPT !.Limits = r.Limits,
                           !.StopRequest = r.StopRequest,
                           !.QuitRequest = r.QuitRequest,
                           !.cmd = IF r.read THEN in.cmd ELSE @]
  /\ UNCHANGED dlFrame

\* "Search starting from ss+1": the root search returns its value and Rml is
\* sorted, which gives the first move of the list.
DlSearch ==
  /\ dl.pc = "search"
  /\ \E v \in DlReturns, m \in 1..dl.size :
       dl' = [dl EXCEPT !.pc = "asp", !.value = v, !.top = m,
                        !.searches = @ + 1]
  /\ UNCHANGED dlFrame

\* The aspiration loop as it would be without its condition
AspAgainAlways(v) == TRUE

\* "while (abs(value) < VALUE_KNOWN_WIN)"
AspAgain(v) == abs(v) < VALUE_KNOWN_WIN

\* The rest of the body of the aspiration loop and its condition.  LastValue
\* is VALUE_NONE at these depths, which leaves value as it was returned.
DlAsp ==
  /\ dl.pc = "asp"
  /\ IF dl.StopRequest
     THEN dl' = [dl EXCEPT !.pc = "collect"]
     ELSE IF dl.value >= dl.beta
     THEN dl' = [dl EXCEPT
                   !.beta = Min(dl.beta + dl.aspirationDelta, VALUE_INFINITE),
                   !.aspirationDelta = @ + @ \div 2,
                   !.pc = IF AspAgain(dl.value) THEN "search"
                          ELSE "collect"]
     ELSE IF dl.value <= dl.alpha
     THEN dl' = [dl EXCEPT
                   !.AspirationFailLow = TRUE,
                   !.StopOnPonderhit = FALSE,
                   !.alpha = Max(dl.alpha - dl.aspirationDelta, -VALUE_INFINITE),
                   !.aspirationDelta = @ + @ \div 2,
                   !.pc = IF AspAgain(dl.value) THEN "search"
                          ELSE "collect"]
     ELSE dl' = [dl EXCEPT !.pc = "collect"]
  /\ UNCHANGED dlFrame

\* The adoption of the easy move as it would be at any depth
AdoptsAnyDepth(d, size, gap) == size = 1 \/ gap

\* "Init easyMove after first iteration": gap is the comparison
\* Rml[0].pv_score > Rml[1].pv_score + EasyMoveMargin.
Adopts(d, size, gap) == d = 1 /\ (size = 1 \/ gap)

\* The early stop as it would be without the latch
DefersNever(stop, ponder) == FALSE

\* "If we are allowed to ponder do not stop the search now but keep
\* pondering"
Defers(stop, ponder) == stop /\ ponder

\* From "Collect info about search result" to the end of the iteration.
\* gap is the comparison of the two best scores, easyNodes and tOver62 are
\* the comparisons of the node counts and of the clock.
DlCollect ==
  /\ dl.pc = "collect"
  /\ \E gap \in BOOLEAN, easyNodes \in BOOLEAN, tOver62 \in BOOLEAN :
       LET best == dl.top
           adopts == Adopts(dl.depth, dl.size, gap)
           easy == IF adopts THEN best
                   ELSE IF best # dl.easyMove THEN MOVE_NONE
                   ELSE dl.easyMove
           tm == ~dl.StopRequest /\ useTimeManagement(dl.Limits)
           easyStop == /\ dl.depth >= 7
                       /\ easy = best
                       /\ (dl.size = 1 \/ easyNodes)
           stop == MateStop(dl.depth, dl.value, dl.bv1) \/ easyStop \/ tOver62
           latch == tm /\ Defers(stop, dl.Limits.ponder)
       IN dl' = [dl EXCEPT
                   !.pc = "head",
                   !.bestMove = best,
                   !.bv1 = dl.value, !.bv2 = dl.bv1, !.bv3 = dl.bv2,
                   !.easyMove = easy,
                   !.StopRequest = IF tm THEN stop /\ ~latch ELSE @,
                   !.StopOnPonderhit = IF latch THEN TRUE ELSE @,
                   !.fired = tm /\ stop,
                   !.mateFired = tm /\ MateStop(dl.depth, dl.value, dl.bv1),
                   !.latched = @ \/ latch,
                   !.cond1 = IF dl.depth = 1 THEN dl.size = 1 \/ gap ELSE @,
                   !.agreed = @ /\ (dl.depth = 1 \/ best = dl.bestMove)]
  /\ UNCHANGED dlFrame

\* id_loop() after its loop
DlExit ==
  /\ dl.pc = "exit"
  /\ dl' = [dl EXCEPT !.pc = "done"]
  /\ UNCHANGED dlFrame

IdLoopNext == DlHead \/ DlPoll \/ DlSearch \/ DlAsp \/ DlCollect \/ DlExit

(***************************************************************************)
(* The probe of the transposition table in search() and in qsearch()       *)
(*                                                                         *)
(* Step 4 of search() and the lookup of qsearch() as a function of what    *)
(* TT.probe() gives and of the node: which move becomes ttMove, whether    *)
(* the node returns the value of the entry, and where its static           *)
(* evaluation comes from.  pbIn is the node with the entry, pbOut what     *)
(* the node takes from it.                                                 *)
(***************************************************************************)
PbDepth == 2 * ONE_PLY
PbPly == 2
PbRmlMove == 2
PbEntryMove == 1

\* Entries TT.probe() may give: with and without move, value and static
\* value, of every bound type, shallow and deep enough.
PbEntries ==
  {NoTTE} \cup
  [move : {MOVE_NONE, PbEntryMove}, value : {VALUE_NONE, VALUE_ZERO},
   type : {VALUE_TYPE_UPPER, VALUE_TYPE_LOWER, VALUE_TYPE_EXACT},
   depth : {DEPTH_NONE, PbDepth}, sv : BOOLEAN, present : {TRUE}]

\* The nodes: the root call, PV and NonPV calls of search() below the root,
\* PV and NonPV calls of qsearch(), in check or not, with a window around
\* VALUE_ZERO.  pseudoLegal is pos.move_is_pseudo_legal(tte->move()).
PbNodes ==
  {[fn |-> k[1], Root |-> k[2], PvNode |-> k[3], inCheck |-> c,
    alpha |-> IF k[3] THEN -10 ELSE -1, beta |-> IF k[3] THEN 10 ELSE 0,
    depth |-> IF k[1] = "search" THEN PbDepth ELSE DEPTH_ZERO,
    ply |-> IF k[2] THEN 1 ELSE PbPly, pseudoLegal |-> ok, entry |-> t] :
     k \in {<<"search", TRUE, TRUE>>, <<"search", FALSE, TRUE>>,
            <<"search", FALSE, FALSE>>, <<"qsearch", FALSE, TRUE>>,
            <<"qsearch", FALSE, FALSE>>},
     c \in BOOLEAN, ok \in BOOLEAN, t \in PbEntries}

NoPbOut ==
  [ttMove |-> MOVE_NONE, tte |-> NoTTE, cutoff |-> FALSE, value |-> VALUE_NONE,
   evalFromTT |-> FALSE, evaluates |-> FALSE]
NoPbIn ==
  [fn |-> "none", Root |-> FALSE, PvNode |-> FALSE, inCheck |-> FALSE,
   alpha |-> 0, beta |-> 0, depth |-> 0, ply |-> 0, pseudoLegal |-> FALSE,
   entry |-> NoTTE]

PbIdle == pbIn = NoPbIn /\ pbOut = NoPbOut /\ pbpc = "idle"

PbInit == pbIn \in PbNodes /\ pbOut = NoPbOut /\ pbpc = "probe"

\* The probe without the test of the move
ChecksMoveNever(Root) == FALSE

\* "if (Root) ttMove = Rml[0].pv[0]; else if (tte && tte->move())": the
\* move of the entry is tested below the root only.
ChecksMove(Root) == ~Root

\* ttMove and the entry that search() goes on with.
SearchProbe(n) ==
  LET t == n.entry
      bad == ChecksMove(n.Root) /\ t.present /\ t.move # MOVE_NONE
             /\ ~n.pseudoLegal
      ttMove == IF n.Root THEN PbRmlMove
                ELSE IF bad THEN MOVE_NONE ELSE t.move
      t1 == IF bad THEN NoTTE ELSE t
      tte == IF TTEntryUsable(t1, n.inCheck) THEN t1 ELSE NoTTE
      cut == /\ ~n.Root
             /\ tte.present
             /\ tte.value # VALUE_NONE
             /\ IF n.PvNode
                THEN /\ tte.depth >= n.depth
                     /\ tte.type = VALUE_TYPE_EXACT
                     /\ tte.value > n.alpha /\ tte.value < n.beta
                ELSE ok_to_use_TT(tte, n.depth, n.beta, n.ply)
  IN [ttMove |-> ttMove, tte |-> tte, cutoff |-> cut,
      value |-> IF cut THEN value_from_tt(tte.value, n.ply) ELSE VALUE_NONE,
      evalFromTT |-> ~cut /\ ~n.inCheck /\ tte.present,
      evaluates |-> ~cut /\ ~n.inCheck /\ ~tte.present]

\* ttMove and the entry that qsearch() goes on with.
QsearchProbe(n) ==
  LET t == n.entry
      bad == t.present /\ t.move # MOVE_NONE /\ ~n.pseudoLegal
      ttMove == IF bad THEN MOVE_NONE ELSE t.move
      t1 == IF bad THEN NoTTE ELSE t
      tte == IF TTEntryUsable(t1, n.inCheck) THEN t1 ELSE NoTTE
      ttDepth == IF n.inCheck \/ n.depth >= DEPTH_QS_CHECKS
                 THEN DEPTH_QS_CHECKS ELSE DEPTH_QS_NO_CHECKS
      cut == /\ ~n.PvNode
             /\ tte.present
             /\ tte.value # VALUE_NONE
             /\ ok_to_use_TT(tte, ttDepth, n.beta, n.ply)
  IN [ttMove |-> ttMove, tte |-> tte, cutoff |-> cut,
      value |-> IF cut THEN value_from_tt(tte.value, n.ply) ELSE VALUE_NONE,
      evalFromTT |-> ~cut /\ ~n.inCheck /\ tte.present,
      evaluates |-> ~cut /\ ~n.inCheck /\ ~tte.present]

\* search() from the probe to the static evaluation
PbSearch ==
  /\ pbpc = "probe" /\ pbIn.fn = "search"
  /\ pbOut' = SearchProbe(pbIn)
  /\ pbpc' = "done"
  /\ UNCHANGED <<pbIn, pbFrame>>

\* qsearch() from the probe to the static evaluation
PbQsearch ==
  /\ pbpc = "probe" /\ pbIn.fn = "qsearch"
  /\ pbOut' = QsearchProbe(pbIn)
  /\ pbpc' = "done"
  /\ UNCHANGED <<pbIn, pbFrame>>

ProbeNext == PbSearch \/ PbQsearch

(***************************************************************************)
(* ok_to_use_TT() over its arguments                                       *)
(***************************************************************************)
OkDepth == 2 * ONE_PLY
OkPlies == {1, 3}

\* Values an entry may hold, as TT.store() was given them by value_to_tt():
\* around both ends of the band of ordinary values and at both mates.
OkValues ==
  {-VALUE_MATE, VALUE_MATED_IN_PLY_MAX - 4, VALUE_MATED_IN_PLY_MAX - 1,
   VALUE_MATED_IN_PLY_MAX, VALUE_MATED_IN_PLY_MAX + 1, VALUE_ZERO,
   VALUE_MATE_IN_PLY_MAX - 1, VALUE_MATE_IN_PLY_MAX, VALUE_MATE_IN_PLY_MAX + 1,
   VALUE_MATE_IN_PLY_MAX + 4, VALUE_MATE}

OkBetas ==
  {-VALUE_MATE + 1, VALUE_MATED_IN_PLY_MAX - 2, VALUE_MATED_IN_PLY_MAX + 1,
   VALUE_ZERO, VALUE_MATE_IN_PLY_MAX - 2, VALUE_MATE_IN_PLY_MAX + 2,
   VALUE_MATE}

OkEntries ==
  [move : {MOVE_NONE}, value : OkValues,
   type : {VALUE_TYPE_NONE, VALUE_TYPE_UPPER, VALUE_TYPE_LOWER,
           VALUE_TYPE_EXACT},
   depth : {OkDepth - ONE_PLY, OkDepth}, sv : {TRUE}, present : {TRUE}]

NoOkIn == [tte |-> NoTTE, depth |-> 0, beta |-> 0, ply |-> 0]

OkIdle == okIn = NoOkIn /\ okOut = FALSE /\ okpc = "idle"

OkInit ==
  /\ okIn \in [tte : OkEntries, depth : {OkDepth}, beta : OkBetas,
               ply : OkPlies]
  /\ okOut = FALSE
  /\ okpc = "call"

\* One call of ok_to_use_TT()
OkCall ==
  /\ okpc = "call"
  /\ okOut' = ok_to_use_TT(okIn.tte, okIn.depth, okIn.beta, okIn.ply)
  /\ okpc' = "done"
  /\ UNCHANGED <<okIn, okFrame>>

OkNext == OkCall

(***************************************************************************)
(* One move of the move loop of search(): steps 14 to 17                   *)
(*                                                                         *)
(* The reduced depth search, the full depth search and the PV search of    *)
(* one move, one action each, then the new best value and alpha and, at    *)
(* the root, the update of the root move.  mv holds the locals of          *)
(* search(), ss->reduction, the alpha and bestValue of the split point     *)
(* when the call is a search<SpNode>(), and the searches made so far.      *)
(***************************************************************************)
MvDepths == {3 * ONE_PLY, 9 * ONE_PLY, 16 * ONE_PLY}
MvMoveCounts == {1, 2, 3}
MvBeta == 2
MvAlpha == -MvBeta

\* What a search of the move returns to the node: -value
MvReturns == {-3, -1, VALUE_ZERO, 1, 3}

NoMv ==
  [pc |-> "idle", PvNode |-> FALSE, Root |-> FALSE, SpNode |-> FALSE,
   depth |-> 0, newDepth |-> 0, moveCount |-> 0, isPvMove |-> FALSE,
   quiet |-> FALSE, MultiPV |-> 1, LastValue |-> 0, evalPos |-> FALSE,
   alpha |-> 0, beta |-> 0, bestValue |-> 0, bestMove |-> FALSE,
   spAlpha |-> 0, spBestValue |-> 0, spBestMove |-> FALSE,
   is_betaCutoff |-> FALSE, others |-> 0, pvScoreOther |-> 0,
   pv_score |-> VALUE_NONE, value |-> VALUE_NONE, reduction |-> 0,
   doFullDepthSearch |-> FALSE, searches |-> <<>>]

MvIdle == mv = NoMv

\* The nodes: the root call (MultiPV 1 or 2), PV and NonPV calls below the
\* root, with and without split point, at the first three moves.
MvInit ==
  \E k \in {<<TRUE, TRUE, FALSE>>, <<TRUE, FALSE, FALSE>>, <<TRUE, FALSE, TRUE>>,
            <<FALSE, FALSE, FALSE>>, <<FALSE, FALSE, TRUE>>} :
  \E d \in MvDepths, mc \in MvMoveCounts, q \in BOOLEAN, multi \in {1, 2},
     low \in BOOLEAN, lv \in {VALUE_ZERO, VALUE_KNOWN_WIN}, ev \in BOOLEAN :
    LET a == IF k[2] /\ multi > 1 /\ mc = 1 THEN -VALUE_INFINITE ELSE MvAlpha
        b == IF k[1] THEN MvBeta ELSE MvAlpha + 1
        bv == IF low \/ mc = 1 THEN -VALUE_INFINITE ELSE a
    IN
    /\ k[2] \/ (multi = 1 /\ ~ev)
    /\ mv = [NoMv EXCEPT
               !.pc = "step 14", !.PvNode = k[1], !.Root = k[2], !.SpNode = k[3],
               !.depth = d, !.newDepth = d - ONE_PLY, !.moveCount = mc,
               !.isPvMove = k[1] /\ mc <= (IF k[2] THEN multi ELSE 1),
               !.quiet = q, !.MultiPV = multi, !.LastValue = lv, !.evalPos = ev,
               !.alpha = a, !.beta = b, !.bestValue = bv,
               !.spAlpha = a, !.spBestValue = bv,
               !.pvScoreOther = IF k[2] /\ multi > 1 /\ mc > multi THEN 1
                                ELSE VALUE_NONE]

\* One search of the move as the node sees it: its window, its depth,
\* ss->reduction during the call and the value it gives the move
MvSearch(kind, a, b, d, v) ==
  [kind |-> kind, alpha |-> a, beta |-> b, depth |-> d,
   reduction |-> mv.reduction, value |-> v]

\* The full depth search left out
DoFullNever(v, a, r) == FALSE

\* "doFullDepthSearch = (value > alpha && ss->reduction != DEPTH_ZERO)"
DoFull(v, a, r) == v > a /\ r # DEPTH_ZERO

\* Step 14: the reduced depth search of a late quiet move
MvReduced ==
  /\ mv.pc = "step 14"
  /\ IF mv.depth >= 3 * ONE_PLY /\ ~mv.isPvMove /\ mv.quiet
     THEN LET r == reduction(mv.PvNode, mv.depth, mv.moveCount)
              d == Max(ONE_PLY, mv.newDepth - r)
              a == IF mv.SpNode THEN mv.spAlpha ELSE mv.alpha
              m1 == [mv EXCEPT !.reduction = r, !.alpha = a]
          IN \E ret \in MvReturns :
               mv' = [m1 EXCEPT
                        !.pc = "restore", !.value = -ret,
                        !.doFullDepthSearch = DoFull(-ret, a, r),
                        !.searches = Append(@,
                           [kind |-> "reduced", alpha |-> a, beta |-> a + 1,
                            depth |-> d, reduction |-> r, value |-> -ret])]
     ELSE mv' = [mv EXCEPT !.pc = "restore",
                           !.doFullDepthSearch = ~mv.isPvMove]
  /\ UNCHANGED mvFrame

\* "ss->reduction = DEPTH_ZERO; // Restore original reduction"
MvRestore ==
  /\ mv.pc = "restore"
  /\ mv' = [mv EXCEPT !.pc = "step 15", !.reduction = DEPTH_ZERO]
  /\ UNCHANGED mvFrame

\* Step 15: the full depth search
MvFullDepth ==
  /\ mv.pc = "step 15"
  /\ IF mv.doFullDepthSearch
     THEN LET a == IF mv.SpNode THEN mv.spAlpha ELSE mv.alpha IN
          \E ret \in MvReturns :
            mv' = [mv EXCEPT
                     !.pc = "pv", !.alpha = a, !.value = -ret,
                     !.searches = Append(@, MvSearch("full", a, a + 1,
                                                     mv.newDepth, -ret))]
     ELSE mv' = [mv EXCEPT !.pc = "pv"]
  /\ UNCHANGED mvFrame

\* Step extra: the PV search, at PV nodes
MvPvSearch ==
  /\ mv.pc = "pv"
  /\ IF mv.PvNode
        /\ (mv.isPvMove
            \/ (mv.value > mv.alpha /\ (mv.Root \/ mv.value < mv.beta)))
     THEN LET a == IF mv.Root /\ mv.MultiPV > 1 /\ mv.moveCount <= mv.MultiPV
                   THEN -VALUE_INFINITE ELSE mv.alpha
          IN \E ret \in MvReturns :
               mv' = [mv EXCEPT
                        !.pc = "step 17", !.alpha = a, !.value = -ret,
                        !.searches = Append(@, MvSearch("pv", a, mv.beta,
                                                        mv.newDepth, -ret))]
     ELSE mv' = [mv EXCEPT !.pc = "step 17"]
  /\ UNCHANGED mvFrame

\* Step 17: the new best value, alpha and best move, under sp->lock in a
\* search<SpNode>()
MvNewBest ==
  /\ mv.pc = "step 17"
  /\ \E cutoff \in (IF mv.SpNode THEN BOOLEAN ELSE {FALSE}) :
       LET a == IF mv.SpNode THEN mv.spAlpha ELSE mv.alpha
           bv == IF mv.SpNode THEN mv.spBestValue ELSE mv.bestValue
           better == mv.value > bv /\ ~cutoff
           keeps == mv.value - mv.LastValue # 1 \/ ~mv.PvNode
           raises == better /\ mv.value > a /\ ~mv.Root /\ mv.PvNode
                     /\ mv.value < mv.beta
       IN
       mv' = [mv EXCEPT
                !.pc = IF mv.Root THEN "root" ELSE "done",
                !.alpha = IF raises THEN mv.value ELSE a,
                !.spAlpha = IF raises /\ mv.SpNode THEN mv.value ELSE @,
                !.bestValue = IF better /\ (keeps \/ mv.Root \/ mv.isPvMove)
                              THEN mv.value ELSE bv,
                !.spBestValue = IF better /\ mv.SpNode /\ keeps
                                THEN mv.value ELSE @,
                !.is_betaCutoff = @ \/ (better /\ mv.value > a /\ ~mv.Root
                                        /\ ~raises /\ mv.SpNode),
                !.bestMove = @ \/ (better /\ mv.value > a),
                !.spBestMove = @ \/ (better /\ mv.value > a /\ mv.SpNode)]
  /\ UNCHANGED mvFrame

\* The root after the move: the score of the root move and the new alpha
MvRoot ==
  /\ mv.pc = "root"
  /\ \E stop \in BOOLEAN :
       IF stop THEN mv' = [mv EXCEPT !.pc = "done"]
       ELSE IF mv.isPvMove \/ mv.value > mv.alpha
       THEN mv' = [mv EXCEPT
                     !.pc = "done", !.pv_score = mv.value,
                     !.alpha =
                        IF mv.MultiPV > 1
                        THEN IF mv.moveCount <= mv.MultiPV THEN mv.value
                             ELSE mv.pvScoreOther
                        ELSE IF mv.value > mv.alpha
                        THEN mv.value - (IF mv.value = VALUE_ZERO /\ mv.evalPos
                                         THEN 1 ELSE 0)
                        ELSE mv.alpha]
       ELSE mv' = [mv EXCEPT !.pc = "done", !.pv_score = -VALUE_INFINITE]
  /\ UNCHANGED mvFrame

\* Another thread of the split point commits its move: at a PV node it
\* raises sp->alpha below beta, at any node sp->bestValue.
MvOther ==
  /\ mv.SpNode /\ mv.others = 0
  /\ mv.pc \in {"step 14", "restore", "step 15", "pv", "step 17"}
  /\ \E v \in {-r : r \in MvReturns} :
       /\ v > mv.spBestValue
       /\ mv' = [mv EXCEPT
                   !.others = 1, !.spBestValue = v,
                   !.spAlpha = IF mv.PvNode /\ v > @ /\ v < mv.beta THEN v ELSE @]
  /\ UNCHANGED mvFrame

MoveNext ==
  \/ MvReduced \/ MvRestore \/ MvFullDepth \/ MvPvSearch \/ MvNewBest
  \/ MvRoot \/ MvOther

(***************************************************************************)
(* The position along the calls of search() and qsearch()                  *)
(*                                                                         *)
(* psPos is the Position the calls work on, as the moves made from the     *)
(* position the first call was given (0 for a null move).  psStack holds   *)
(* the calls that have not returned, the last one running: the position    *)
(* each was entered with, the place in the code where it makes moves       *)
(* (site), the move it has made there and where it stands.  psRet is the   *)
(* last return: the function, the position at its entry and at its return. *)
(***************************************************************************)
MaxPsPly == 3
MaxPsMoves == 2
PsMoves == 1..MaxPsMoves
MOVE_NULL == 65

\* The places of search() that call a search: on the same position (the
\* razoring qsearch, the verification searches, internal iterative
\* deepening, the LastValue searches, the singular extension search), after
\* do_null_move(), and after do_move() in the probcut loop, in the
\* refutation loop of beta == 0 and in the move loop.
PsSites(fn) ==
  IF fn = "search"
  THEN <<"same position", "null move", "probcut", "refutation", "move loop">>
  ELSE <<"move loop">>

\* The places with a return after the call: all but the move loop, which is
\* left by its condition.
PsEarlyReturn(site) == site # "move loop"

NoPsFrame ==
  [fn |-> "none", entry |-> <<>>, site |-> 0, pc |-> "none", move |-> 0,
   n |-> 0, pv |-> <<>>, ply |-> 0]
NoPsRet == [fn |-> "none", entry |-> <<>>, pos |-> <<>>, site |-> "none"]

PsIdle == psPos = <<>> /\ psStack = <<>> /\ psRet = NoPsRet

PsCall(fn, p) == [NoPsFrame EXCEPT !.fn = fn, !.entry = p, !.site = 1, !.pc = "at"]

\* The root call of search(), or insert_pv_in_tt() of a root move with a PV
\* of one to three moves.
PsInit ==
  /\ psPos = <<>>
  /\ psRet = NoPsRet
  /\ \/ psStack = <<PsCall("search", <<>>)>>
     \/ \E len \in 1..MaxPsPly : \E pv \in [1..len -> PsMoves] :
          psStack = <<[NoPsFrame EXCEPT !.fn = "insert_pv_in_tt", !.pc = "do",
                                        !.pv = pv]>>

PsTop == psStack[Len(psStack)]
PsSetTop(f) == [psStack EXCEPT ![Len(psStack)] = f]
PsPop == SubSeq(psStack, 1, Len(psStack) - 1)

\* pos.do_move(m, st) and pos.do_null_move(st)
do_move(p, m) == Append(p, m)

\* The position left as it is
undo_move_none(p, m) == p

\* pos.undo_move(m) and pos.undo_null_move(): back to the StateInfo before
\* the last move
undo_move(p, m) == SubSeq(p, 1, Len(p) - 1)

\* A call of a search on the position as it is: search(pos, ss, ...) or
\* qsearch(pos, ss, ...) from search().
PsCallSame ==
  /\ psStack # <<>> /\ PsTop.fn = "search" /\ PsTop.pc = "at"
  /\ PsSites("search")[PsTop.site] = "same position"
  /\ PsTop.n < MaxPsMoves /\ Len(psStack) < MaxPsPly
  /\ \E fn \in {"search", "qsearch"} :
       psStack' = Append(PsSetTop([PsTop EXCEPT !.pc = "searching", !.n = @ + 1]),
                         PsCall(fn, psPos))
  /\ UNCHANGED <<psPos, psRet, psFrame>>

\* do_null_move() or do_move() of the next move of the place, and the call
\* of the search of the position it gives: search(pos, ss+1, ...) or
\* qsearch(pos, ss+1, ...).
PsDoMove ==
  /\ psStack # <<>> /\ PsTop.fn \in {"search", "qsearch"} /\ PsTop.pc = "at"
  /\ PsSites(PsTop.fn)[PsTop.site] # "same position"
  /\ PsTop.n < (IF PsSites(PsTop.fn)[PsTop.site] = "null move" THEN 1
                ELSE MaxPsMoves)
  /\ Len(psStack) < MaxPsPly
  /\ LET m == IF PsSites(PsTop.fn)[PsTop.site] = "null move" THEN MOVE_NULL
              ELSE PsTop.n + 1
     IN
     /\ psPos' = do_move(psPos, m)
     /\ \E fn \in (IF PsTop.fn = "qsearch" THEN {"qsearch"}
                   ELSE {"search", "qsearch"}) :
          psStack' = Append(PsSetTop([PsTop EXCEPT !.pc = "searching",
                                                   !.move = m, !.n = @ + 1]),
                            PsCall(fn, psPos'))
  /\ UNCHANGED <<psRet, psFrame>>

\* undo_move() or undo_null_move() after the search has returned
PsUndoMove ==
  /\ psStack # <<>> /\ PsTop.fn \in {"search", "qsearch"}
  /\ PsTop.pc = "searched"
  /\ IF PsSites(PsTop.fn)[PsTop.site] = "same position"
     THEN psPos' = psPos
     ELSE psPos' = undo_move(psPos, PsTop.move)
  /\ psStack' = PsSetTop([PsTop EXCEPT !.pc = "undone"])
  /\ UNCHANGED <<psRet, psFrame>>

\* After the search of a move: the next turn of the loop of the place.
PsNextMove ==
  /\ psStack # <<>> /\ PsTop.fn \in {"search", "qsearch"}
  /\ PsTop.pc = "undone"
  /\ psStack' = PsSetTop([PsTop EXCEPT !.pc = "at"])
  /\ UNCHANGED <<psPos, psRet, psFrame>>

\* The place is left without a return: its condition does not hold, its
\* loop has no more moves, or the value of the search does not end the node.
PsNextSite ==
  /\ psStack # <<>> /\ PsTop.fn \in {"search", "qsearch"}
  /\ PsTop.pc \in {"at", "undone"}
  /\ PsTop.site < Len(PsSites(PsTop.fn))
  /\ psStack' = PsSetTop([PsTop EXCEPT !.pc = "at", !.site = @ + 1, !.n = 0,
                                       !.move = 0])
  /\ UNCHANGED <<psPos, psRet, psFrame>>

\* The places a call may return from
PsReturnsAnywhere(f) == f.pc \in {"at", "searched", "undone"}

\* A return of search() or qsearch(): before the first place (steps 2 to 4,
\* stand pat), after the undo of a place with a return after its call, or
\* after the move loop.
PsReturns(f) ==
  \/ f.pc = "at" /\ f.site = 1 /\ f.n = 0
  \/ f.pc = "undone" /\ PsEarlyReturn(PsSites(f.fn)[f.site])
  \/ f.pc \in {"at", "undone"} /\ f.site = Len(PsSites(f.fn))

PsReturn ==
  /\ psStack # <<>> /\ PsTop.fn \in {"search", "qsearch"}
  /\ PsReturns(PsTop)
  /\ psRet' = [fn |-> PsTop.fn, entry |-> PsTop.entry, pos |-> psPos,
               site |-> IF PsTop.pc = "undone" THEN PsSites(PsTop.fn)[PsTop.site]
                        ELSE "none"]
  /\ psStack' = IF Len(psStack) = 1 THEN <<>>
                ELSE LET q == PsPop IN
                     [q EXCEPT ![Len(q)] = [@ EXCEPT !.pc = "searched"]]
  /\ UNCHANGED <<psPos, psFrame>>

\* insert_pv_in_tt(): "pos.do_move(pv[ply], *st++)" while
\* pv[++ply] != MOVE_NONE
PsInsertDo ==
  /\ psStack # <<>> /\ PsTop.fn = "insert_pv_in_tt" /\ PsTop.pc = "do"
  /\ psPos' = do_move(psPos, PsTop.pv[PsTop.ply + 1])
  /\ psStack' = PsSetTop([PsTop EXCEPT
                            !.ply = @ + 1,
                            !.pc = IF PsTop.ply + 1 < Len(PsTop.pv) THEN "do"
                                   ELSE "undo"])
  /\ UNCHANGED <<psRet, psFrame>>

\* insert_pv_in_tt(): "do pos.undo_move(pv[--ply]); while (ply);"
PsInsertUndo ==
  /\ psStack # <<>> /\ PsTop.fn = "insert_pv_in_tt" /\ PsTop.pc = "undo"
  /\ psPos' = undo_move(psPos, PsTop.pv[PsTop.ply])
  /\ psStack' = PsSetTop([PsTop EXCEPT
                            !.ply = @ - 1,
                            !.pc = IF PsTop.ply - 1 > 0 THEN "undo" ELSE "end"])
  /\ UNCHANGED <<psRet, psFrame>>

\* The return of insert_pv_in_tt()
PsInsertReturn ==
  /\ psStack # <<>> /\ PsTop.fn = "insert_pv_in_tt" /\ PsTop.pc = "end"
  /\ psRet' = [fn |-> PsTop.fn, entry |-> PsTop.entry, pos |-> psPos,
               site |-> "none"]
  /\ psStack' = <<>>
  /\ UNCHANGED <<psPos, psFrame>>

PosNext ==
  \/ PsCallSame \/ PsDoMove \/ PsUndoMove \/ PsNextMove \/ PsNextSite
  \/ PsReturn \/ PsInsertDo \/ PsInsertUndo \/ PsInsertReturn

(***************************************************************************)
(* The SearchStack frames of the calls of search() and qsearch()           *)
(*                                                                         *)
(* id_loop() has "SearchStack stack[PLY_MAX_PLUS_2], *ss = stack+2" and    *)
(* every call for the position after a move is given ss+1.  sk is the      *)
(* innermost call along one line of play: the function, the index of its   *)
(* frame ss in stack[] and where it stands; its ss->ply is the index less  *)
(* one, (ss-1)->ply + 1 from stack[1].ply == 0.  skAcc holds the indices   *)
(* of the frames the last step has read or written.                        *)
(***************************************************************************)
SkFrames == 0..(PLY_MAX_PLUS_2 - 1)

\* Calls past the array are followed this far.
SkPast == 2

NoSk == [fn |-> "none", ss |-> 0, pc |-> "none", Root |-> FALSE]

SkIdle == sk = NoSk /\ skAcc = {}

SkInit == sk = [NoSk EXCEPT !.fn = "id_loop", !.pc = "init"] /\ skAcc = {}

\* ss->ply as the call reads it after "ss->ply = (ss-1)->ply + 1": for a
\* frame of the array the index less one, for a frame past its end whatever
\* is found there.
SkPlies(ss) == IF ss \in SkFrames THEN {ss - 1} ELSE {ss - 1, PLY_MAX}

\* id_loop(): memset(ss-2, 0, 5 * sizeof(SearchStack)), stack[1].eval, and
\* the root call search<PV, false, true>(pos, ss, ...) of an iteration.
SkIdLoop ==
  /\ sk.fn = "id_loop"
  /\ sk' = [fn |-> "search", ss |-> 2, pc |-> "init", Root |-> TRUE]
  /\ skAcc' = 0..4
  /\ UNCHANGED skFrame

\* search() from its entry to step 2: ss->ply = (ss-1)->ply + 1, the writes
\* of step 1 to (ss+1) and (ss+2), and below the root the return of
\* VALUE_DRAW for a stop, a cutoff, a draw or ss->ply > PLY_MAX.
SkSearchInit ==
  /\ sk.fn = "search" /\ sk.pc = "init"
  /\ skAcc' = {sk.ss - 1, sk.ss, sk.ss + 1, sk.ss + 2}
  /\ \E ply \in SkPlies(sk.ss), draw \in BOOLEAN :
       sk' = [sk EXCEPT !.pc = IF ~sk.Root /\ (draw \/ ply > PLY_MAX)
                                THEN "returned" ELSE "body"]
  /\ UNCHANGED skFrame

\* search() from step 3 on: the frames ss, (ss-1), (ss-2) and (ss+1) are
\* read and written, and the node returns or calls search() or qsearch()
\* with ss+1 for the position after a move.
SkSearchBody ==
  /\ sk.fn = "search" /\ sk.pc = "body"
  /\ skAcc' = {sk.ss - 2, sk.ss - 1, sk.ss, sk.ss + 1}
  /\ \/ sk' = [sk EXCEPT !.pc = "returned"]
     \/ /\ sk.ss + 1 < PLY_MAX_PLUS_2 + SkPast
        /\ \E fn \in {"search", "qsearch"} :
             sk' = [fn |-> fn, ss |-> sk.ss + 1, pc |-> "init", Root |-> FALSE]
  /\ UNCHANGED skFrame

\* qsearch() at its entry: ss->currentMove, ss->ply = (ss-1)->ply + 1 and
\* the return of VALUE_DRAW for ss->ply > PLY_MAX or a draw.
SkQsearchInit ==
  /\ sk.fn = "qsearch" /\ sk.pc = "init"
  /\ skAcc' = {sk.ss - 1, sk.ss}
  /\ \E ply \in SkPlies(sk.ss), draw \in BOOLEAN :
       sk' = [sk EXCEPT !.pc = IF draw \/ ply > PLY_MAX
                                THEN "returned" ELSE "body"]
  /\ UNCHANGED skFrame

\* qsearch() after that: ss and (ss-1) are read and written, and the node
\* returns or calls qsearch() with ss+1.
SkQsearchBody ==
  /\ sk.fn = "qsearch" /\ sk.pc = "body"
  /\ skAcc' = {sk.ss - 1, sk.ss}
  /\ \/ sk' = [sk EXCEPT !.pc = "returned"]
     \/ /\ sk.ss + 1 < PLY_MAX_PLUS_2 + SkPast
        /\ sk' = [fn |-> "qsearch", ss |-> sk.ss + 1, pc |-> "init",
                  Root |-> FALSE]
  /\ UNCHANGED skFrame

StackNext ==
  \/ SkIdLoop \/ SkSearchInit \/ SkSearchBody \/ SkQsearchInit
  \/ SkQsearchBody

(***************************************************************************)
(* Specifications                                                          *)
(***************************************************************************)
TTInit == CvInit /\ ThIdle /\ NdIdle /\ IlIdle /\ SpIdle /\ UcIdle /\ PlIdle /\ DlIdle /\ PbIdle /\ OkIdle /\ MvIdle /\ PsIdle /\ SkIdle

SpecTT == TTInit /\ [][CvNext]_vars

ThinkInit == ThInit /\ CvIdle /\ NdIdle /\ IlIdle /\ SpIdle /\ UcIdle /\ PlIdle /\ DlIdle /\ PbIdle /\ OkIdle /\ MvIdle /\ PsIdle /\ SkIdle

NodeInit == NdInit /\ CvIdle /\ ThIdle /\ IlIdle /\ SpIdle /\ UcIdle /\ PlIdle /\ DlIdle /\ PbIdle /\ OkIdle /\ MvIdle /\ PsIdle /\ SkIdle

IdleInit == IlInit /\ CvIdle /\ ThIdle /\ NdIdle /\ SpIdle /\ UcIdle /\ PlIdle /\ DlIdle /\ PbIdle /\ OkIdle /\ MvIdle /\ PsIdle /\ SkIdle

SplitInit == SpInit /\ CvIdle /\ ThIdle /\ NdIdle /\ IlIdle /\ UcIdle /\ PlIdle /\ DlIdle /\ PbIdle /\ OkIdle /\ MvIdle /\ PsIdle /\ SkIdle

UciInit == UcInit /\ CvIdle /\ ThIdle /\ NdIdle /\ IlIdle /\ SpIdle /\ PlIdle /\ DlIdle /\ PbIdle /\ OkIdle /\ MvIdle /\ PsIdle /\ SkIdle

SpecSplit == SplitInit /\ [][SplitNext]_vars

SpecUci == UciInit /\ [][UcNext]_vars

PollInit == PlInit /\ CvIdle /\ ThIdle /\ NdIdle /\ IlIdle /\ SpIdle /\ UcIdle /\ DlIdle /\ PbIdle /\ OkIdle /\ MvIdle /\ PsIdle /\ SkIdle

SpecPoll == PollInit /\ [][PollNext]_vars

IdLoopInit == DlInit /\ CvIdle /\ ThIdle /\ NdIdle /\ IlIdle /\ SpIdle /\ UcIdle /\ PlIdle /\ PbIdle /\ OkIdle /\ MvIdle /\ PsIdle /\ SkIdle

SpecIdLoop == IdLoopInit /\ [][IdLoopNext]_vars

AspInit == DlAspInit /\ CvIdle /\ ThIdle /\ NdIdle /\ IlIdle /\ SpIdle /\ UcIdle /\ PlIdle /\ PbIdle /\ OkIdle /\ MvIdle /\ PsIdle /\ SkIdle

\* id_loop() runs on: a step that can be taken is taken.
SpecAsp == AspInit /\ [][IdLoopNext]_vars /\ WF_vars(IdLoopNext)

ProbeInit == PbInit /\ CvIdle /\ ThIdle /\ NdIdle /\ IlIdle /\ SpIdle /\ UcIdle /\ PlIdle /\ DlIdle /\ OkIdle /\ MvIdle /\ PsIdle /\ SkIdle

SpecProbe == ProbeInit /\ [][ProbeNext]_vars

OkToUseInit == OkInit /\ CvIdle /\ ThIdle /\ NdIdle /\ IlIdle /\ SpIdle /\ UcIdle /\ PlIdle /\ DlIdle /\ PbIdle /\ MvIdle /\ PsIdle /\ SkIdle

SpecOk == OkToUseInit /\ [][OkNext]_vars

MoveInit == MvInit /\ CvIdle /\ ThIdle /\ NdIdle /\ IlIdle /\ SpIdle /\ UcIdle /\ PlIdle /\ DlIdle /\ PbIdle /\ OkIdle /\ PsIdle /\ SkIdle

SpecMove == MoveInit /\ [][MoveNext]_vars

PosInit == PsInit /\ CvIdle /\ ThIdle /\ NdIdle /\ IlIdle /\ SpIdle /\ UcIdle /\ PlIdle /\ DlIdle /\ PbIdle /\ OkIdle /\ MvIdle /\ SkIdle

SpecPos == PosInit /\ [][PosNext]_vars

\* The pool with sleeping threads, every thread scheduled again and again
SleepInit == IdleInit /\ useSleepingThreads

SpecSleep ==
  SleepInit /\ [][IlNext]_vars /\ \A t \in ThreadIds : WF_vars(IlThread(t))

StackInit == SkInit /\ CvIdle /\ ThIdle /\ NdIdle /\ IlIdle /\ SpIdle /\ UcIdle /\ PlIdle /\ DlIdle /\ PbIdle /\ OkIdle /\ MvIdle /\ PsIdle

SpecStack == StackInit /\ [][StackNext]_vars

SpecIdle == IdleInit /\ [][IlNext]_vars

SpecNode == NodeInit /\ [][NdNext]_vars

SpecThink == ThinkInit /\ [][ThNext]_vars

(***************************************************************************)
(* Properties of think() and id_loop(), under SpecThink                    *)
(***************************************************************************)
BestMovePrinted == \E i \in 1..Len(out) : out[i].t = "bestmove"
AfterRootLoop == {"root_exit", "asp_step", "iter_collect", "iter_head",
                  "id_exit", "id_ret", "final_wait", "done"}
AfterIteration == {"iter_collect", "iter_head", "id_exit", "id_ret",
                   "final_wait", "done"}

\* C1: a think() started with Limits.ponder set prints no "bestmove" line
\* before "stop", "ponderhit" or "quit" has been read or the input has ended,
\* whether the book has a move, the root has none, the maximum depth is
\* reached or an early stop fires in id_loop() or poll().
C1_NoBestmoveWhilePondering == (limits.ponder /\ BestMovePrinted) => cmdRead

\* An early stop was latched while pondering, and the best move is out.
C1_Witness ==
  limits.ponder /\ BestMovePrinted /\ StopOnPonderhit /\ depth >= 1 /\ cmdRead

C3_EmptyRoot ==
  (bookMove = MOVE_NONE /\ Len(rootMoves) = 0 /\ pc # "think")
    => /\ depth = 0
       /\ TT = [k \in TTKeys |-> NoTTE]
       /\ bestMove = MOVE_NONE
       /\ Cardinality({i \in 1..Len(out) : out[i].t = "info depth 0 score"}) = 1
       /\ out[1].t = "info depth 0 score"
       /\ out[1].value = (IF rootInCheck THEN -VALUE_MATE ELSE VALUE_DRAW)
       /\ out[1].score = (IF rootInCheck THEN [kind |-> "mate", n |-> 0]
                          ELSE [kind |-> "cp", n |-> 0])
       /\ pc = "done" => out[Len(out)] = BestMoveLine(MOVE_NONE, MOVE_NONE)

\* think() has returned from a root that is mated.
C3_Witness ==
  pc = "done" /\ bookMove = MOVE_NONE /\ Len(rootMoves) = 0 /\ rootInCheck

\* C4: when the root has a legal move, the move id_loop() returns is the
\* first move of an entry of Rml, whether the search was stopped during the
\* first iteration or not, whatever MultiPV is, with and without the skill
\* handicap.
C4_LegalBestMove ==
  (pc = "id_ret" /\ Len(rootMoves) >= 1) => bestMove \in RootMovesOf(Rml)

\* C9: after each iteration of id_loop() that ran to its end, in single-PV
\* and in MultiPV mode, Rml[i].pv_score >= Rml[i+1].pv_score for every i.
C9_RmlSorted ==
  (pc \in AfterIteration /\ depth >= 1 /\ ~aborted.flag)
    => \A i \in 1..(Len(Rml) - 1) : Rml[i].pv_score >= Rml[i + 1].pv_score

\* An iteration has ended with the second root move sorted to the front.
C9_Witness ==
  /\ pc = "iter_collect"
  /\ ~aborted.flag
  /\ Len(Rml) >= 2
  /\ Rml[1].pv[1] = 2
  /\ Rml[1].pv_score > Rml[2].pv_score

(***************************************************************************)
(* Properties of the value conversion, under SpecTT                        *)
(***************************************************************************)
\* C5: value_from_tt(value_to_tt(v, ply), ply) = v for every Value v and
\* every ply in [0, PLY_MAX].
C5_RoundTrip == cvpc = "loaded" => cvOut = cvIn


(***************************************************************************)
(* Properties of the nodes of the search tree, under SpecNode              *)
(***************************************************************************)
\* C6, as claimed: the bound kind of the final store of search() and of
\* qsearch() agrees with the value v relative to the window (alpha, beta)
\* the call was entered with: EXACT only when alpha < v < beta, UPPER only
\* when v <= alpha, LOWER only when v >= beta.
C6_BoundInEntryWindow ==
  ndStore.fn # "none" =>
    /\ ndStore.type = VALUE_TYPE_EXACT
         => (ndStore.alpha < ndStore.v /\ ndStore.v < ndStore.beta)
    /\ ndStore.type = VALUE_TYPE_UPPER => ndStore.v <= ndStore.alpha
    /\ ndStore.type = VALUE_TYPE_LOWER => ndStore.v >= ndStore.beta

\* C6, as the code has it: EXACT only when alpha < v < beta and UPPER only
\* when v <= alpha, for the window of entry; LOWER only when v >= beta in
\* qsearch() and at the root, and in every other search() only when v is at
\* least the beta that mate distance pruning leaves, the smaller of beta and
\* value_mate_in(ply + 1).
C6_BoundAfterMateDistancePruning ==
  ndStore.fn # "none" =>
    /\ ndStore.type = VALUE_TYPE_EXACT
         => (ndStore.alpha < ndStore.v /\ ndStore.v < ndStore.beta)
    /\ ndStore.type = VALUE_TYPE_UPPER => ndStore.v <= ndStore.alpha
    /\ ndStore.type = VALUE_TYPE_LOWER
         => ndStore.v >= (IF ndStore.fn = "search" /\ ~ndStore.Root
                          THEN Min(ndStore.beta, value_mate_in(ndStore.ply + 1))
                          ELSE ndStore.beta)

\* A search() below the root has stored a mate in one as a lower bound
\* although the value is below the beta it was entered with.
C6_Witness ==
  /\ ndStore.fn = "search"
  /\ ~ndStore.Root
  /\ ndStore.type = VALUE_TYPE_LOWER
  /\ ndStore.v = value_mate_in(ndStore.ply + 1)
  /\ ndStore.v < ndStore.beta

\* C7: every call of search() and of qsearch(), from id_loop() and from
\* every call site of search() and qsearch(), satisfies the assertions of
\* entry: -VALUE_INFINITE <= alpha < beta <= VALUE_INFINITE, and
\* beta == alpha + 1 when the call is a NonPV node.
C7_EntryAssertions == \A c \in ndCalls : EntryAssert(c)

\* C8: the root call and every search() and qsearch() below it return a
\* value of [-VALUE_MATE, VALUE_MATE], the static evaluations being of that
\* range.
C8_ReturnInRange ==
  ndRet.fn # "none" => (ndRet.value >= -VALUE_MATE /\ ndRet.value <= VALUE_MATE)


(***************************************************************************)
(* Properties of the thread pool, under SpecIdle                           *)
(***************************************************************************)
\* C10: when idle_loop(threadID, sp) of a master, sp not NULL, returns,
\* sp->is_slave[i] is false for every i < activeThreads, every thread that
\* joined the split point is past the end of its search of the split point,
\* the master's state is SEARCHING, and the master has grabbed and released
\* sp->lock.
C10_MasterLeavesLast ==
  idleRet.sp # 0 =>
    /\ \A i \in ThreadIds : i < activeThreads => ~idleRet.is_slave[i]
    /\ \A i \in idleRet.joined :
         \A k \in 1..Len(callStack[i]) :
           ~(callStack[i][k].fn = "search" /\ callStack[i][k].sp = idleRet.sp)
    /\ idleRet.state = "SEARCHING"
    /\ idleRet.grabbed

\* A master has come back from a split point that two slaves had joined, in
\* a pool of sleeping threads.
C10_Witness ==
  /\ idleRet.sp # 0
  /\ idleRet.state = "SEARCHING"
  /\ Cardinality(idleRet.joined) = 3
  /\ useSleepingThreads

(***************************************************************************)
(* Properties of the split-point search, under SpecSplit                   *)
(***************************************************************************)
\* C11, as claimed: every read and every write of the shared moveCount,
\* bestValue, bestMove, alpha, is_betaCutoff and MovePicker of a split point
\* by a thread in search<SpNode>() is made while the thread holds sp->lock.
C11_SharedUnderLock == \A a \in spAcc : a.locked

\* C12: a value >= beta that a thread commits to sp->bestValue comes with
\* sp->is_betaCutoff before the thread gives up sp->lock (until then the
\* thread is at the write of the flag), and a thread that tests the loop
\* condition when the flag is set leaves the loop with no move to search.
C12_CutoffStopsLoop ==
  /\ (spShared.bestValue >= spShared.beta /\ ~spShared.is_betaCutoff) =>
       (spShared.lock # NoThread /\ spt[spShared.lock].pc = "alpha"
        /\ spt[spShared.lock].value >= spShared.beta)
  /\ \A e \in spLog : ~e.afterCutoff

C12_Witness ==
  /\ spShared.bestValue >= spShared.beta /\ spShared.is_betaCutoff /\ spShared.PvNode
  /\ spShared.mp < SpMoves
  /\ \A t \in SpThreadIds : spt[t].pc = "out"

(***************************************************************************)
(* Properties of polling, under SpecPoll                                   *)
(***************************************************************************)
\* C13: StopRequest is written by thread 0 only: poll() runs in a search()
\* call of thread 0, the other writes are in think() and id_loop(); the
\* other threads only read StopRequest.
C13_OnlyThread0Writes == plLog.writers \subseteq {0}

C13_Witness ==
  /\ pl.StopRequest /\ pl.NodesSincePoll = 0
  /\ \E t \in ThreadIds : t # 0 /\ t \in plLog.readers

\* C14: StopRequest, once set, stays set; a call of search() made after it
\* was set that is neither the root nor a split point returns at step 2
\* and neither probes nor stores in the transposition table; the root
\* breaks after the move in progress and does not update its RootMove; no
\* node makes its final update while StopRequest is set; id_loop() starts
\* no further iteration.
C14_StopIsFinal ==
  /\ [][pl.StopRequest => pl'.StopRequest]_vars
  /\ [](/\ ~plLog.ttLate /\ ~plLog.finalLate
        /\ ~plLog.rmLate /\ ~plLog.iterLate)

C14_Witness ==
  /\ pl.StopRequest /\ plLog.broke /\ plThreads[0].pc = "id_loop"
  /\ \E t \in ThreadIds : t # 0 /\ t \in plLog.readers
  /\ \A t \in ThreadIds : t # 0 => plThreads[t].pc = "idle"

(***************************************************************************)
(* Properties of value_to_uci(), under SpecUci                             *)
(***************************************************************************)
\* C15: value_to_uci(v) prints "cp" with v * 100 / PawnValueMidgame, cut
\* toward zero, when |v| < VALUE_MATE - PLY_MAX, and "mate" otherwise: a mate
\* in n moves (2n - 1 plies) is printed as mate n, being mated in n moves
\* (2n plies) as mate -n.
C15_UciScore ==
  ucOut # NoUci =>
    /\ abs(ucIn) < VALUE_MATE - PLY_MAX =>
         /\ ucOut.kind = "cp"
         /\ abs(ucOut.n) * PawnValueMidgame <= abs(ucIn) * 100
         /\ abs(ucIn) * 100 < (abs(ucOut.n) + 1) * PawnValueMidgame
         /\ (ucIn >= 0 => ucOut.n >= 0) /\ (ucIn <= 0 => ucOut.n <= 0)
    /\ abs(ucIn) >= VALUE_MATE - PLY_MAX => ucOut.kind = "mate"
    /\ \A n \in 1..(PLY_MAX \div 2) :
         /\ ucIn = value_mate_in(2 * n - 1) => ucOut = [kind |-> "mate", n |-> n]
         /\ ucIn = value_mated_in(2 * n) => ucOut = [kind |-> "mate", n |-> -n]

C15_Witness ==
  /\ ucIn = value_mate_in(1)
  /\ ucOut = [kind |-> "mate", n |-> 1]

\* C16: think() returns false exactly when "quit" or the end of the input
\* was read during the call, by poll() or by wait_for_stop_or_ponderhit()
\* (also on the book move path); after "stop" or "ponderhit" it returns true.
C16_FalseIffQuit == pc = "done" => (thinkRet = FALSE <=> quitRead)

C16_Witness ==
  /\ pc = "done" /\ thinkRet = FALSE /\ quitRead
  /\ bookMove # MOVE_NONE /\ limits.ponder

(***************************************************************************)
(* Properties of id_loop() over its iterations, under SpecIdLoop and       *)
(* SpecAsp                                                                 *)
(***************************************************************************)

\* C17: when an early stop condition fires at the end of an iteration while
\* Limits.ponder is true, StopRequest stays false, StopOnPonderhit is set and
\* the loop goes on; a "ponderhit" that poll() reads while StopOnPonderhit
\* is set sets StopRequest; and StopOnPonderhit, once set, is cleared by
\* nothing but an aspiration fail low.
C17_PonderLatch ==
  /\ [][(dl.pc = "collect" /\ dl'.fired /\ dl.Limits.ponder) =>
          (~dl'.StopRequest /\ dl'.StopOnPonderhit /\ dl'.pc = "head")]_vars
  /\ [][(/\ dl.pc = "search" /\ dl'.pc = "search"
         /\ dl.Limits.ponder /\ ~dl'.Limits.ponder /\ dl'.cmd = "ponderhit"
         /\ dl.StopOnPonderhit) => dl'.StopRequest]_vars
  /\ [][(dl.StopOnPonderhit /\ ~dl'.StopOnPonderhit) =>
          (/\ dl.pc = "asp" /\ ~dl.StopRequest /\ dl.value <= dl.alpha
           /\ dl'.AspirationFailLow)]_vars

\* The stop was deferred at the end of an iteration and the "ponderhit"
\* of a later root search has set StopRequest.
C17_Witness ==
  /\ dl.pc = "search" /\ dl.latched /\ dl.StopOnPonderhit
  /\ dl.cmd = "ponderhit" /\ dl.StopRequest /\ ~dl.Limits.ponder
  /\ ~dl.QuitRequest

\* The number of plies to the mate that a mate score announces
MatePlies(v) == VALUE_MATE - abs(v)

\* Both of the last two iterations returned a mate score.
TwoMateScores ==
  /\ abs(dl.value) >= VALUE_MATE_IN_PLY_MAX
  /\ abs(dl.bv1) >= VALUE_MATE_IN_PLY_MAX

\* The end of an iteration at depth >= 5 that is reached with time
\* management active and no stop requested yet
TimedCollect ==
  /\ dl.pc = "collect" /\ dl.depth >= 5
  /\ ~dl.StopRequest /\ useTimeManagement(dl.Limits)

\* The stop is requested: StopRequest is set, or, while pondering, the
\* request is deferred to StopOnPonderhit.
StopAsked ==
  IF dl.Limits.ponder THEN dl'.StopOnPonderhit /\ ~dl'.StopRequest
  ELSE dl'.StopRequest

AspStepAsStated ==
  LET stop == dl.StopRequest
      inside == dl.alpha < dl.value /\ dl.value < dl.beta
      known == abs(dl.value) >= VALUE_KNOWN_WIN
      grown == dl.aspirationDelta + dl.aspirationDelta \div 2
  IN
  /\ (dl'.pc = "collect") <=> (stop \/ inside \/ known)
  /\ (dl'.pc = "search") <=> ~(stop \/ inside \/ known)
  /\ (~stop /\ dl.value >= dl.beta) =>
       /\ dl'.beta = Min(dl.beta + dl.aspirationDelta, VALUE_INFINITE)
       /\ dl'.alpha = dl.alpha
       /\ dl'.aspirationDelta = grown
       /\ dl'.AspirationFailLow = dl.AspirationFailLow
  /\ (~stop /\ dl.value <= dl.alpha) =>
       /\ dl'.alpha = Max(dl.alpha - dl.aspirationDelta, -VALUE_INFINITE)
       /\ dl'.beta = dl.beta
       /\ dl'.aspirationDelta = grown
       /\ dl'.AspirationFailLow
  /\ (stop \/ inside) =>
       /\ dl'.alpha = dl.alpha /\ dl'.beta = dl.beta
       /\ dl'.aspirationDelta = dl.aspirationDelta

\* C19: the aspiration loop of an iteration terminates whatever the root
\* searches return: every root search is followed by the end of the
\* iteration, after at most 18 root searches; a fail high raises only beta
\* by delta, a fail low lowers only alpha by delta and sets
\* AspirationFailLow, delta then grows by its half, the bounds saturate at
\* +/-VALUE_INFINITE, and the loop is left exactly when StopRequest is set,
\* alpha < value < beta, or |value| >= VALUE_KNOWN_WIN.
C19_AspirationTerminates ==
  /\ [](dl.searches <= 18)
  /\ (dl.pc = "search") ~> (dl.pc = "collect")
  /\ [][dl.pc = "asp" => AspStepAsStated]_vars

\* The iteration that needed the most root searches: both bounds have gone
\* all the way, the last search failed and returned a known win or loss.
C19_Witness ==
  /\ dl.wide /\ dl.pc = "collect" /\ dl.searches = 18 /\ ~dl.StopRequest
  /\ dl.AspirationFailLow
  /\ (dl.alpha = -VALUE_INFINITE \/ dl.beta = VALUE_INFINITE)

\* Iteration 1 is over.
AfterIteration1 ==
  dl.depth >= 2 \/ (dl.depth = 1 /\ dl.pc \in {"head", "exit", "done"})

\* C20: easyMove is a move only if the adoption test held at the end of
\* iteration 1 (one root move, or the first score above the second by more
\* than EasyMoveMargin) and every iteration since ended with the same best
\* move, which easyMove is; and an easyMove that is MOVE_NONE after
\* iteration 1 stays MOVE_NONE.
C20_EasyMove ==
  /\ [](dl.easyMove # MOVE_NONE =>
          (/\ AfterIteration1 /\ dl.cond1 /\ dl.agreed
           /\ dl.easyMove = dl.bestMove))
  /\ [][(AfterIteration1 /\ dl.easyMove = MOVE_NONE) =>
          dl'.easyMove = MOVE_NONE]_vars

\* Two root moves, the second adopted at depth 1 for its margin and still
\* the best move, and the easy move, after the last iteration.
C20_Witness ==
  /\ dl.pc = "head" /\ dl.depth = MaxDlDepth /\ dl.size = 2
  /\ dl.easyMove = 2 /\ dl.bestMove = 2 /\ dl.cond1 /\ dl.agreed


(***************************************************************************)
(* Properties of the end of the move loops, under SpecNode                 *)
(***************************************************************************)

\* search() returns from its move loop without having counted a move.
NoMoveReturn ==
  /\ ndpc = "moves" /\ nd.fn = "search" /\ nd.moveCount = 0 /\ ndpc' = "ret"

\* The value of step 19
NoMoveResult ==
  ndRet'.value = (IF nd.excludedMove THEN nd.oldAlpha
                  ELSE IF nd.inCheck THEN value_mated_in(nd.ply)
                  ELSE VALUE_DRAW)

\* The entry that step 5 stores for a position without entry: the static
\* evaluation and nothing else.
EvalOnlyEntry ==
  [move |-> MOVE_NONE, value |-> VALUE_NONE, type |-> VALUE_TYPE_NONE,
   depth |-> DEPTH_NONE, sv |-> TRUE, present |-> TRUE]

\* C21 as stated: a search() that counted no move returns oldAlpha with an
\* excluded move, else value_mated_in(ply) in check, else VALUE_DRAW, and
\* the transposition table holds for its position what it held when the
\* call was entered.
C21_NoMoveStoresNothing ==
  [][NoMoveReturn =>
       (NoMoveResult /\ (nd.isK => ndTT'[<<>>] = nd.ttIn))]_vars

\* C21: a search() that counted no move returns oldAlpha with an excluded
\* move, else value_mated_in(ply) in check, else VALUE_DRAW, and returns
\* before the store of step 20: no value, bound, depth or move is stored,
\* and the table holds for its position what it held at entry or, where the
\* probe found no entry, the static evaluation that step 5 stored.
C21_NoMoveSkipsStore ==
  [][NoMoveReturn =>
       /\ NoMoveResult
       /\ ndStore' = ndStore /\ ndTT' = ndTT
       /\ nd.isK => \/ ndTT'[<<>>] = nd.ttIn
                    \/ ~nd.ttIn.present /\ ndTT'[<<>>] = EvalOnlyEntry]_vars

\* The position K, not in check, stalemated: search() has found no entry,
\* has stored the static evaluation and returns VALUE_DRAW from step 19.
C21_Witness ==
  /\ ndpc = "ret" /\ ndRet.site = "step 19" /\ ndRet.value = VALUE_DRAW
  /\ ndTT[<<>>] = EvalOnlyEntry /\ ndStore = NoStore

BadEntry ==
  pbIn.entry.present /\ pbIn.entry.move # MOVE_NONE /\ ~pbIn.pseudoLegal

\* What the node takes from the table when TT.probe() gives nothing
MissOut ==
  LET n == [pbIn EXCEPT !.entry = NoTTE]
  IN IF pbIn.fn = "search" THEN SearchProbe(n) ELSE QsearchProbe(n)

\* C23: search() and qsearch() go on from an entry whose move is not
\* pseudo-legal as from a miss: the same ttMove (none below the root), no
\* value returned, no static evaluation taken from the entry.
C23_BadEntryIsMiss ==
  (pbpc = "done" /\ BadEntry) => pbOut = MissOut

\* C23, below the root: search() below the root and qsearch() go on from an
\* entry whose move is not pseudo-legal as from a miss, with no ttMove, no
\* value returned and no static evaluation taken from the entry.
C23_BadEntryIsMissBelowRoot ==
  (pbpc = "done" /\ BadEntry /\ ~pbIn.Root) =>
     (pbOut = MissOut /\ pbOut.ttMove = MOVE_NONE /\ ~pbOut.cutoff
      /\ ~pbOut.evalFromTT)

\* A NonPV search() below the root has dropped an entry that was deep
\* enough to return its value, and evaluates the position itself.
C23_Witness ==
  /\ pbpc = "done" /\ BadEntry /\ pbIn.fn = "search" /\ ~pbIn.Root
  /\ ~pbIn.PvNode /\ ~pbIn.inCheck
  /\ pbIn.entry.sv /\ pbIn.entry.depth = PbDepth
  /\ pbIn.entry.value = VALUE_ZERO /\ pbIn.entry.type = VALUE_TYPE_LOWER
  /\ pbOut.evaluates /\ pbOut.tte = NoTTE

(***************************************************************************)
(* Properties of ok_to_use_TT(), under SpecOk                              *)
(***************************************************************************)

\* The value of the entry as the node reads it
OkV == value_from_tt(okIn.tte.value, okIn.ply)

OkDeep == okIn.tte.depth >= okIn.depth

\* The bound is on the side of beta where the value is.
OkSide ==
  \/ okIn.tte.type \in {VALUE_TYPE_LOWER, VALUE_TYPE_EXACT} /\ OkV >= okIn.beta
  \/ okIn.tte.type \in {VALUE_TYPE_UPPER, VALUE_TYPE_EXACT} /\ OkV < okIn.beta

\* The value is outside the band of ordinary values.
OkMateScore == OkV >= VALUE_MATE_IN_PLY_MAX \/ OkV <= VALUE_MATED_IN_PLY_MAX

\* C24: ok_to_use_TT() is true exactly when the entry is deep enough or its
\* value as read at the ply is a mate score, and the bound is on the side of
\* beta where the value is.
C24_OkExactlyDeepOrMate ==
  okpc = "done" => (okOut <=> ((OkDeep \/ OkMateScore) /\ OkSide))

\* C24, with the mate scores the code takes: ok_to_use_TT() is true exactly
\* when the bound is on the side of beta where the value is and the entry
\* is deep enough, or gives a mate for the side to move at or above beta, or
\* a mate against it below VALUE_MATED_IN_PLY_MAX and below beta; whenever
\* it is true the entry is deep enough or its value is a mate score.
C24_OkDeepOrMateOnTheSide ==
  okpc = "done" =>
    /\ okOut <=>
         /\ OkSide
         /\ \/ OkDeep
            \/ OkV >= VALUE_MATE_IN_PLY_MAX /\ OkV >= okIn.beta
            \/ OkV < VALUE_MATED_IN_PLY_MAX /\ OkV < okIn.beta
    /\ okOut => ((OkDeep \/ OkMateScore) /\ OkSide)

\* An entry that is not deep enough is used for its mate score above beta.
C24_Witness ==
  /\ okpc = "done" /\ okOut /\ ~OkDeep
  /\ OkV >= VALUE_MATE_IN_PLY_MAX /\ okIn.tte.type = VALUE_TYPE_LOWER

(***************************************************************************)
(* Properties of one move of the move loop, under SpecMove                 *)
(***************************************************************************)

\* The searches of the move are over.
MvSearched == mv.pc \in {"step 17", "root", "done"}

\* Search i of the move was a reduced one that came back above its alpha.
ReducedFailedHigh(i) ==
  /\ mv.searches[i].kind = "reduced"
  /\ mv.searches[i].reduction > DEPTH_ZERO
  /\ mv.searches[i].value > mv.searches[i].alpha

\* The value of the move is the one its PV search gave.
ValueOfPvSearch ==
  /\ mv.searches # <<>>
  /\ mv.searches[Len(mv.searches)].kind = "pv"
  /\ mv.searches[Len(mv.searches)].value = mv.value

C26_AlphaBelowBetaMonotone ==
  /\ [](spShared.alpha < spShared.beta)
  /\ [][/\ spShared.alpha' >= spShared.alpha
        /\ spShared.bestValue' >= spShared.bestValue]_vars

\* At a PV split point one thread has raised sp->alpha and sp->bestValue
\* and another, that read the old alpha before its search, has committed
\* a move after it.
C26_Witness ==
  /\ spShared.PvNode /\ spShared.alpha > SpAlpha
  /\ spShared.bestValue = spShared.alpha
  /\ \E t \in SpThreadIds :
       /\ spt[t].pc = "best" /\ spt[t].value > SpAlpha
       /\ spt[t].value <= spShared.alpha
       /\ spShared.bestMove # MOVE_NONE /\ spShared.bestMove # spt[t].move

\* Thread t is between a lock_grab(&(sp->lock)) and the lock_release()
\* that follows it in the code of search<SpNode>().
SpInsideLock(t) == spt[t].pc \in {"loop", "best", "alpha", "exit"}

\* Thread t is at a lock_grab(&(sp->lock)).
SpAtGrab(t) == spt[t].pc \in {"grab", "regrab", "done"}

\* C27: a thread in search<SpNode>() holds sp->lock at the condition of the
\* move loop and when it clears is_slave[threadID], and nowhere else but in
\* step 17; it gives the lock up with every move it takes and at its exit
\* only, takes it only where it does not hold it, once before the loop,
\* once for a pruned move and once after a searched move, and clears
\* is_slave[threadID] once, at its exit, which every path out goes through.
C27_LockDiscipline ==
  /\ [](\A t \in SpThreadIds :
          /\ SpInsideLock(t) <=> spShared.lock = t
          /\ spShared.is_slave[t] <=> spt[t].pc # "out")
  /\ [][\A t \in SpThreadIds :
          /\ (spShared.lock = t /\ spShared.lock' # t) =>
               \/ /\ spt[t].pc = "loop" /\ spt'[t].pc = "prune"
                  /\ spt'[t].move # MOVE_NONE
                  /\ spShared.moveCount' = spShared.moveCount + 1
               \/ spt[t].pc = "exit" /\ spt'[t].pc = "out"
          /\ (spt[t].pc = "loop" /\ spt'[t].pc = "prune") => spShared.lock' # t
          /\ (spShared.lock # t /\ spShared.lock' = t) =>
               /\ spShared.lock = NoThread /\ SpAtGrab(t)
               /\ spt'[t].pc \in {"loop", "best"}
          /\ (spt[t].pc \in {"regrab", "done"} /\ spt'[t].pc # spt[t].pc) =>
               spShared.lock' = t
          /\ spShared.is_slave'[t] # spShared.is_slave[t] =>
               /\ spShared.is_slave[t] /\ spShared.lock = t
               /\ spt[t].pc = "exit" /\ spt'[t].pc = "out"
          /\ spt[t].pc = "out" => spt'[t].pc = "out"
          /\ (spt[t].pc # "out" /\ spt'[t].pc = "out") => spt[t].pc = "exit"]_vars

\* A thread has taken a move, pruned it, taken the lock again, and has left
\* the split point with is_slave cleared while the other one still searches.
C27_Witness ==
  \E t, u \in SpThreadIds :
    /\ spt[t].pc = "out" /\ ~spShared.is_slave[t]
    /\ spt[u].pc = "search" /\ spShared.is_slave[u]
    /\ spShared.lock = NoThread
    /\ \E m \in spLog : m.thread = t

(***************************************************************************)
(* The position at the returns, under SpecPos                              *)
(***************************************************************************)

\* C28: every search(), qsearch() and insert_pv_in_tt() returns with the
\* position it was entered with, whatever the place it returns from, and
\* when the first call has returned the position is the one it was given.
C28_PositionRestored ==
  /\ [](psRet.pos = psRet.entry)
  /\ [](psStack = <<>> => psPos = <<>>)
  /\ [][psRet' # psRet => psPos' = psRet'.entry]_vars

\* A search() below the root has returned from its probcut loop after the
\* second move tried there, with the position it was entered with, which
\* is not the root position.
C28_Witness ==
  /\ psRet.fn = "search" /\ psRet.site = "probcut"
  /\ psRet.entry # <<>> /\ psRet.pos = psRet.entry
  /\ psStack # <<>> /\ PsTop.pc = "searched" /\ psPos = Append(PsTop.entry, PsTop.move)

(***************************************************************************)
(* The master of a split point with sleeping threads, under SpecSleep      *)
(***************************************************************************)

\* Thread t is in idle_loop(t, s) as the master of split point s.
MasterIn(t, s) ==
  \E k \in 1..Len(callStack[t]) :
    callStack[t][k].fn = "idle_loop" /\ callStack[t][k].sp = s

\* Every thread of split point s has cleared its is_slave flag.
AllSlavesFinished(s) == \A i \in ThreadIds : ~splitPoints[s].is_slave[i]

\* C29: with sleeping threads, a master in idle_loop() for its split point
\* comes back from idle_loop() once the last slave has cleared is_slave,
\* when every thread goes on being scheduled.
C29_MasterReturns ==
  \A s \in SplitPointIds :
    ((\E t \in ThreadIds : MasterIn(t, s)) /\ AllSlavesFinished(s))
      ~> ~(\E t \in ThreadIds : MasterIn(t, s))

\* The master of a split point is asleep in cond_wait() while a slave is
\* still at work on the split point.
C29_Witness ==
  \E t \in ThreadIds : \E s \in SplitPointIds :
    /\ useSleepingThreads
    /\ Top(t).fn = "idle_loop" /\ Top(t).sp = s /\ Top(t).pc = "cond_wait"
    /\ threads[t].sleeping
    /\ \E i \in ThreadIds \ {t} : splitPoints[s].is_slave[i]

(***************************************************************************)
(* The frames of the SearchStack, under SpecStack                          *)
(***************************************************************************)

\* C30: every frame a call of search() or qsearch() reads or writes is one
\* of the PLY_MAX_PLUS_2 frames of stack[].
C30_FramesInArray == skAcc \subseteq SkFrames

=============================================================================
